---- MODULE Spec2Model ----
(***************************************************************************)
(* Dealer nudging system: the field normaliser (normalize_field), the      *)
(* language-model extraction adapter with its rule-based fallback, and the *)
(* record reconciler that writes an extraction result to the store.        *)
(*                                                                         *)
(* A Python string is a sequence of one-character strings, so that         *)
(* joining, searching and parsing are computed character by character.     *)
(* A Python value is a record tagged by its type in field t.               *)
(***************************************************************************)
EXTENDS Integers, Sequences, FiniteSets, TLC

VARIABLES
    field, field_type, default, nf_result,
    text, document_name, client, rnd, ex_result, rb_result,
    db, conn, ops,
    pg, app

nf_vars == <<field, field_type, default, nf_result>>
ex_vars == <<text, document_name, client, rnd, ex_result, rb_result>>
db_vars == <<db, conn, ops>>
vars == <<nf_vars, ex_vars, db_vars, pg, app>>

(***************************************************************************)
(* String literals of the source.                                          *)
(***************************************************************************)
s_None == <<"N", "o", "n", "e">>
s_True == <<"T", "r", "u", "e">>
s_False == <<"F", "a", "l", "s", "e">>
s_inf == <<"i", "n", "f">>
s_infinity == <<"i", "n", "f", "i", "n", "i", "t", "y">>
s_nan == <<"n", "a", "n">>
s_comma_space == <<",", " ">>
s_colon_space == <<":", " ">>
s_null == <<"n", "u", "l", "l">>
s_true == <<"t", "r", "u", "e">>
s_false == <<"f", "a", "l", "s", "e">>
s_Infinity == <<"I", "n", "f", "i", "n", "i", "t", "y">>
s_NaN == <<"N", "a", "N">>
s_Special_Support == <<"S", "p", "e", "c", "i", "a", "l", " ", "S", "u", "p", "p", "o", "r", "t">>
s_2023_01_01 == <<"2", "0", "2", "3", "-", "0", "1", "-", "0", "1">>
s_2023_12_31 == <<"2", "0", "2", "3", "-", "1", "2", "-", "3", "1">>
s_All_India == <<"A", "l", "l", " ", "I", "n", "d", "i", "a">>
s_All_Dealers == <<"A", "l", "l", " ", "D", "e", "a", "l", "e", "r", "s">>
s_Mobile == <<"M", "o", "b", "i", "l", "e">>
s_Other == <<"O", "t", "h", "e", "r">>
s_Fixed == <<"F", "i", "x", "e", "d">>
s_INR == <<"I", "N", "R">>
s_General == <<"G", "e", "n", "e", "r", "a", "l">>
s_No_description == <<"N", "o", " ", "d", "e", "s", "c", "r", "i", "p", "t", "i", "o", "n">>
s_Scheme_from == <<"S", "c", "h", "e", "m", "e", " ", "f", "r", "o", "m", " ">>
s_Product == <<"P", "r", "o", "d", "u", "c", "t", " ">>
s_CODE == <<"C", "O", "D", "E", "-">>
k_scheme_name == <<"s", "c", "h", "e", "m", "e", "_", "n", "a", "m", "e">>
k_scheme_type == <<"s", "c", "h", "e", "m", "e", "_", "t", "y", "p", "e">>
k_scheme_period_start == <<"s", "c", "h", "e", "m", "e", "_", "p", "e", "r", "i", "o", "d", "_", "s", "t", "a", "r", "t">>
k_scheme_period_end == <<"s", "c", "h", "e", "m", "e", "_", "p", "e", "r", "i", "o", "d", "_", "e", "n", "d">>
k_applicable_region == <<"a", "p", "p", "l", "i", "c", "a", "b", "l", "e", "_", "r", "e", "g", "i", "o", "n">>
k_dealer_type_eligibility == <<"d", "e", "a", "l", "e", "r", "_", "t", "y", "p", "e", "_", "e", "l", "i", "g", "i", "b", "i", "l", "i", "t", "y">>
k_products == <<"p", "r", "o", "d", "u", "c", "t", "s">>
k_scheme_rules == <<"s", "c", "h", "e", "m", "e", "_", "r", "u", "l", "e", "s">>
k_product_name == <<"p", "r", "o", "d", "u", "c", "t", "_", "n", "a", "m", "e">>
k_product_code == <<"p", "r", "o", "d", "u", "c", "t", "_", "c", "o", "d", "e">>
k_product_category == <<"p", "r", "o", "d", "u", "c", "t", "_", "c", "a", "t", "e", "g", "o", "r", "y">>
k_product_subcategory == <<"p", "r", "o", "d", "u", "c", "t", "_", "s", "u", "b", "c", "a", "t", "e", "g", "o", "r", "y">>
k_ram == <<"r", "a", "m">>
k_storage == <<"s", "t", "o", "r", "a", "g", "e">>
k_connectivity == <<"c", "o", "n", "n", "e", "c", "t", "i", "v", "i", "t", "y">>
k_dealer_price_dp == <<"d", "e", "a", "l", "e", "r", "_", "p", "r", "i", "c", "e", "_", "d", "p">>
k_mrp == <<"m", "r", "p">>
k_support_type == <<"s", "u", "p", "p", "o", "r", "t", "_", "t", "y", "p", "e">>
k_payout_type == <<"p", "a", "y", "o", "u", "t", "_", "t", "y", "p", "e">>
k_payout_amount == <<"p", "a", "y", "o", "u", "t", "_", "a", "m", "o", "u", "n", "t">>
k_payout_unit == <<"p", "a", "y", "o", "u", "t", "_", "u", "n", "i", "t">>
k_dealer_contribution == <<"d", "e", "a", "l", "e", "r", "_", "c", "o", "n", "t", "r", "i", "b", "u", "t", "i", "o", "n">>
k_total_payout == <<"t", "o", "t", "a", "l", "_", "p", "a", "y", "o", "u", "t">>
k_is_dealer_incentive == <<"i", "s", "_", "d", "e", "a", "l", "e", "r", "_", "i", "n", "c", "e", "n", "t", "i", "v", "e">>
k_is_bundle_offer == <<"i", "s", "_", "b", "u", "n", "d", "l", "e", "_", "o", "f", "f", "e", "r">>
k_bundle_price == <<"b", "u", "n", "d", "l", "e", "_", "p", "r", "i", "c", "e">>
k_is_upgrade_offer == <<"i", "s", "_", "u", "p", "g", "r", "a", "d", "e", "_", "o", "f", "f", "e", "r">>
k_is_slab_based == <<"i", "s", "_", "s", "l", "a", "b", "_", "b", "a", "s", "e", "d">>
k_free_item_description == <<"f", "r", "e", "e", "_", "i", "t", "e", "m", "_", "d", "e", "s", "c", "r", "i", "p", "t", "i", "o", "n">>
k_rule_type == <<"r", "u", "l", "e", "_", "t", "y", "p", "e">>
k_rule_description == <<"r", "u", "l", "e", "_", "d", "e", "s", "c", "r", "i", "p", "t", "i", "o", "n">>
k_rule_value == <<"r", "u", "l", "e", "_", "v", "a", "l", "u", "e">>
s_Active == <<"A", "c", "t", "i", "v", "e">>
s_Pending == <<"P", "e", "n", "d", "i", "n", "g">>
s_Approved == <<"A", "p", "p", "r", "o", "v", "e", "d">>
s_Rejected == <<"R", "e", "j", "e", "c", "t", "e", "d">>
s_Samsung_Galaxy_S21_FE == <<"S", "a", "m", "s", "u", "n", "g", " ", "G", "a", "l", "a", "x", "y", " ", "S", "2", "1", " ", "F", "E">>
s_SM_G990B == <<"S", "M", "-", "G", "9", "9", "0", "B">>
s_S_Series == <<"S", " ", "S", "e", "r", "i", "e", "s">>
s_8GB == <<"8", "G", "B">>
s_128GB == <<"1", "2", "8", "G", "B">>
s_5G == <<"5", "G">>
s_Tablet == <<"T", "a", "b", "l", "e", "t">>

(***************************************************************************)
(* Python values.  An int is m * 10^e (e >= 0), so that integers beyond    *)
(* the range of a double are values of the model.  A float is finite       *)
(* (k = "fin", value (-1)^neg * m * 10^e with m not divisible by 10), an   *)
(* infinity (k = "inf") or not-a-number (k = "nan").                       *)
(***************************************************************************)
PyNone == [t |-> "None"]
PyBool(b) == [t |-> "bool", b |-> b]
PyInt(m, e) == [t |-> "int", m |-> m, e |-> e]
PyFloat(k, neg, m, e) == [t |-> "float", k |-> k, neg |-> neg, m |-> m, e |-> e]
PyStr(s) == [t |-> "str", s |-> s]
PyList(items) == [t |-> "list", items |-> items]
PyDict(items) == [t |-> "dict", items |-> items]

\* The outcome of a call: a returned value, or a raised exception.
Ret(v) == [exc |-> "none", val |-> v]
Raise(e) == [exc |-> e, val |-> PyNone]

(***************************************************************************)
(* Digits and decimal arithmetic.                                          *)
(***************************************************************************)
Digits == <<"0", "1", "2", "3", "4", "5", "6", "7", "8", "9">>
IsDigit(c) == \E i \in 1..10 : Digits[i] = c
DigitVal(c) == (CHOOSE i \in 1..10 : Digits[i] = c) - 1
Abs(n) == IF n < 0 THEN -n ELSE n

RECURSIVE Pow10(_)
Pow10(k) == IF k = 0 THEN 1 ELSE 10 * Pow10(k - 1)

RECURSIVE NumDigits(_)
NumDigits(n) == IF n < 10 THEN 1 ELSE 1 + NumDigits(n \div 10)

RECURSIVE IntDigits(_)
IntDigits(n) == IF n < 10 THEN <<Digits[n + 1]>> ELSE IntDigits(n \div 10) \o <<Digits[(n % 10) + 1]>>

RECURSIVE DigitsVal(_)
DigitsVal(ds) == IF ds = <<>> THEN 0 ELSE 10 * DigitsVal(SubSeq(ds, 1, Len(ds) - 1)) + DigitVal(ds[Len(ds)])

Zeros(k) == [i \in 1..k |-> "0"]

RECURSIVE Join(_, _)
Join(parts, sep) ==
    IF parts = <<>> THEN <<>>
    ELSE IF Len(parts) = 1 THEN parts[1]
    ELSE parts[1] \o sep \o Join(Tail(parts), sep)

Contains(s, c) == \E i \in 1..Len(s) : s[i] = c

\* The largest double is 1.797...e308: 309 digits before the decimal point.
FloatMaxDecpt == 309
FloatMaxLead4 == 1797
\* The smallest positive double is 4.94...e-324.
FloatMinDecpt == -323

\* The leading four digits of m (padded with zeros on the right).
Lead4(m) ==
    LET d == NumDigits(m)
    IN  IF d >= 4 THEN m \div Pow10(d - 4) ELSE m * Pow10(4 - d)

RECURSIVE StripZeros(_, _)
StripZeros(m, e) == IF m # 0 /\ m % 10 = 0 THEN StripZeros(m \div 10, e + 1) ELSE <<m, e>>

\* The double nearest to (-1)^neg * m * 10^e: overflow gives an infinity,
\* underflow gives zero.
MkFloat(neg, m, e) ==
    IF m = 0 THEN PyFloat("fin", neg, 0, 0)
    ELSE LET n == StripZeros(m, e)
             decpt == NumDigits(n[1]) + n[2]
         IN  IF decpt > FloatMaxDecpt \/ (decpt = FloatMaxDecpt /\ Lead4(n[1]) > FloatMaxLead4)
             THEN PyFloat("inf", neg, 0, 0)
             ELSE IF decpt < FloatMinDecpt THEN PyFloat("fin", neg, 0, 0)
             ELSE PyFloat("fin", neg, n[1], n[2])

\* Whether the int m * 10^e is beyond the range of a double.
IntExceedsFloat(m, e) ==
    LET decpt == NumDigits(Abs(m)) + e
    IN  m # 0 /\ (decpt > FloatMaxDecpt \/ (decpt = FloatMaxDecpt /\ Lead4(Abs(m)) > FloatMaxLead4))

\* The int m * 10^e in its one representation: e = 0 when it has at most
\* nine digits, otherwise m carries no trailing zero.
MkInt(m, e) ==
    IF m = 0 THEN PyInt(0, 0)
    ELSE IF NumDigits(Abs(m)) + e <= 9 THEN PyInt(m * Pow10(e), 0)
    ELSE LET n == StripZeros(Abs(m), e)
         IN  PyInt(IF m < 0 THEN -n[1] ELSE n[1], n[2])

(***************************************************************************)
(* str(), repr() and json.dumps() of a value.                              *)
(***************************************************************************)
\* float.__repr__: positional for 1e-4 <= |x| < 1e16, else scientific.
float_repr(f) ==
    IF f.k = "nan" THEN s_nan
    ELSE LET sign == IF f.neg THEN <<"-">> ELSE <<>>
         IN  IF f.k = "inf" THEN sign \o s_inf
             ELSE IF f.m = 0 THEN sign \o <<"0", ".", "0">>
             ELSE LET ds == IntDigits(f.m)
                      n == Len(ds)
                      decpt == n + f.e
                      x == decpt - 1
                      xd == IntDigits(Abs(x))
                  IN  IF decpt > -4 /\ decpt <= 16
                      THEN IF decpt <= 0 THEN sign \o <<"0", ".">> \o Zeros(-decpt) \o ds
                           ELSE IF decpt >= n THEN sign \o ds \o Zeros(decpt - n) \o <<".", "0">>
                           ELSE sign \o SubSeq(ds, 1, decpt) \o <<".">> \o SubSeq(ds, decpt + 1, n)
                      ELSE sign \o <<ds[1]>>
                           \o (IF n > 1 THEN <<".">> \o SubSeq(ds, 2, n) ELSE <<>>)
                           \o <<"e", IF x < 0 THEN "-" ELSE "+">>
                           \o (IF Len(xd) < 2 THEN <<"0">> \o xd ELSE xd)

int_str(v) ==
    IF v.m = 0 THEN <<"0">>
    ELSE (IF v.m < 0 THEN <<"-">> ELSE <<>>) \o IntDigits(Abs(v.m)) \o Zeros(v.e)

\* The sequences of parts, one after the other.
RECURSIVE Concat(_)
Concat(parts) ==
    IF parts = <<>> THEN <<>>
    ELSE IF Len(parts) = 1 THEN parts[1]
    ELSE Concat(SubSeq(parts, 1, Len(parts) \div 2))
         \o Concat(SubSeq(parts, Len(parts) \div 2 + 1, Len(parts)))

\* The character c with backslash, the quote q and line breaks escaped.
EscapeChar(c, q) ==
    IF c = "\\" THEN <<"\\", "\\">>
    ELSE IF c = q THEN <<"\\", q>>
    ELSE IF c = "\n" THEN <<"\\", "n">>
    ELSE IF c = "\r" THEN <<"\\", "r">>
    ELSE IF c = "\t" THEN <<"\\", "t">>
    ELSE <<c>>

Escape(s, q) == Concat([i \in 1..Len(s) |-> EscapeChar(s[i], q)])

str_repr(s) ==
    LET q == IF Contains(s, "'") /\ ~Contains(s, "\"") THEN "\"" ELSE "'"
    IN  <<q>> \o Escape(s, q) \o <<q>>

RECURSIVE py_repr(_)
py_repr(v) ==
    CASE v.t = "None" -> s_None
      [] v.t = "bool" -> IF v.b THEN s_True ELSE s_False
      [] v.t = "int" -> int_str(v)
      [] v.t = "float" -> float_repr(v)
      [] v.t = "str" -> str_repr(v.s)
      [] v.t = "list" ->
            <<"[">> \o Join([i \in 1..Len(v.items) |-> py_repr(v.items[i])], s_comma_space) \o <<"]">>
      [] v.t = "dict" ->
            <<"{">> \o Join([i \in 1..Len(v.items) |->
                                str_repr(v.items[i].k) \o s_colon_space \o py_repr(v.items[i].v)],
                            s_comma_space) \o <<"}">>

\* str(v)
py_str(v) == IF v.t = "str" THEN v.s ELSE py_repr(v)

\* json.dumps(v) with the default separators.
RECURSIVE json_dumps(_)
json_dumps(v) ==
    CASE v.t = "None" -> s_null
      [] v.t = "bool" -> IF v.b THEN s_true ELSE s_false
      [] v.t = "int" -> int_str(v)
      [] v.t = "float" ->
            IF v.k = "nan" THEN s_NaN
            ELSE IF v.k = "inf" THEN (IF v.neg THEN <<"-">> ELSE <<>>) \o s_Infinity
            ELSE float_repr(v)
      [] v.t = "str" -> <<"\"">> \o Escape(v.s, "\"") \o <<"\"">>
      [] v.t = "list" ->
            <<"[">> \o Join([i \in 1..Len(v.items) |-> json_dumps(v.items[i])], s_comma_space) \o <<"]">>
      [] v.t = "dict" ->
            <<"{">> \o Join([i \in 1..Len(v.items) |->
                                <<"\"">> \o Escape(v.items[i].k, "\"") \o <<"\"">>
                                \o s_colon_space \o json_dumps(v.items[i].v)],
                            s_comma_space) \o <<"}">>

(***************************************************************************)
(* float() and int() of a value.                                           *)
(***************************************************************************)
IsSpace(c) == c \in {" ", "\t", "\n", "\r", "\f"}

RECURSIVE LStrip(_)
LStrip(s) == IF s # <<>> /\ IsSpace(s[1]) THEN LStrip(Tail(s)) ELSE s

RECURSIVE RStrip(_)
RStrip(s) == IF s # <<>> /\ IsSpace(s[Len(s)]) THEN RStrip(SubSeq(s, 1, Len(s) - 1)) ELSE s

Strip(s) == RStrip(LStrip(s))

UpperCase == <<"A", "B", "C", "D", "E", "F", "G", "H", "I", "J", "K", "L", "M", "N", "O", "P", "Q", "R", "S", "T", "U", "V", "W", "X", "Y", "Z">>
LowerCase == <<"a", "b", "c", "d", "e", "f", "g", "h", "i", "j", "k", "l", "m", "n", "o", "p", "q", "r", "s", "t", "u", "v", "w", "x", "y", "z">>
IsUpper(c) == \E i \in 1..26 : UpperCase[i] = c
IsLower(c) == \E i \in 1..26 : LowerCase[i] = c
IsAlpha(c) == IsUpper(c) \/ IsLower(c)
IsAlnum(c) == IsAlpha(c) \/ IsDigit(c)
ToLower(c) == IF IsUpper(c) THEN LowerCase[CHOOSE i \in 1..26 : UpperCase[i] = c] ELSE c
Lower(s) == [i \in 1..Len(s) |-> ToLower(s[i])]

\* The first position of a character of cs in s, or 0.
IndexOf(s, cs) ==
    IF \E i \in 1..Len(s) : s[i] \in cs
    THEN CHOOSE i \in 1..Len(s) : s[i] \in cs /\ \A j \in 1..(i - 1) : s[j] \notin cs
    ELSE 0

\* Digits, with single underscores allowed between digits.
DigitGroup(s) ==
    /\ s # <<>>
    /\ \A i \in 1..Len(s) : IsDigit(s[i]) \/ s[i] = "_"
    /\ IsDigit(s[1]) /\ IsDigit(s[Len(s)])
    /\ \A i \in 1..(Len(s) - 1) : ~(s[i] = "_" /\ s[i + 1] = "_")

NoUnderscore(c) == c # "_"
GroupDigits(s) == SelectSeq(s, NoUnderscore)

\* float(s) of a string.
ParseFloat(s) ==
    LET t == Strip(s)
        hasSign == t # <<>> /\ t[1] \in {"+", "-"}
        neg == hasSign /\ t[1] = "-"
        body == IF hasSign THEN Tail(t) ELSE t
        low == Lower(body)
    IN  IF low = s_inf \/ low = s_infinity THEN Ret(PyFloat("inf", neg, 0, 0))
        ELSE IF low = s_nan THEN Ret(PyFloat("nan", FALSE, 0, 0))
        ELSE LET ePos == IndexOf(body, {"e", "E"})
                 mant == IF ePos = 0 THEN body ELSE SubSeq(body, 1, ePos - 1)
                 expo == IF ePos = 0 THEN <<>> ELSE SubSeq(body, ePos + 1, Len(body))
                 eHasSign == expo # <<>> /\ expo[1] \in {"+", "-"}
                 eNeg == eHasSign /\ expo[1] = "-"
                 eDigits == IF eHasSign THEN Tail(expo) ELSE expo
                 dot == IndexOf(mant, {"."})
                 ip == IF dot = 0 THEN mant ELSE SubSeq(mant, 1, dot - 1)
                 fp == IF dot = 0 THEN <<>> ELSE SubSeq(mant, dot + 1, Len(mant))
                 okMant == /\ ip # <<>> \/ fp # <<>>
                           /\ ip = <<>> \/ DigitGroup(ip)
                           /\ fp = <<>> \/ DigitGroup(fp)
                 okExp == ePos = 0 \/ DigitGroup(eDigits)
             IN  IF okMant /\ okExp
                 THEN LET x == IF ePos = 0 THEN 0 ELSE DigitsVal(GroupDigits(eDigits))
                      IN  Ret(MkFloat(neg, DigitsVal(GroupDigits(ip \o fp)),
                                      (IF eNeg THEN -x ELSE x) - Len(GroupDigits(fp))))
                 ELSE Raise("ValueError")

\* int(s) of a string, base 10.
ParseInt(s) ==
    LET t == Strip(s)
        hasSign == t # <<>> /\ t[1] \in {"+", "-"}
        neg == hasSign /\ t[1] = "-"
        body == IF hasSign THEN Tail(t) ELSE t
    IN  IF DigitGroup(body)
        THEN LET n == DigitsVal(GroupDigits(body)) IN Ret(MkInt(IF neg THEN -n ELSE n, 0))
        ELSE Raise("ValueError")

py_float(v) ==
    CASE v.t = "None" -> Raise("TypeError")
      [] v.t = "bool" -> Ret(MkFloat(FALSE, IF v.b THEN 1 ELSE 0, 0))
      [] v.t = "int" ->
            IF IntExceedsFloat(v.m, v.e) THEN Raise("OverflowError")
            ELSE Ret(MkFloat(v.m < 0, Abs(v.m), v.e))
      [] v.t = "float" -> Ret(v)
      [] v.t = "str" -> ParseFloat(v.s)
      [] v.t \in {"list", "dict"} -> Raise("TypeError")

py_int(v) ==
    CASE v.t = "None" -> Raise("TypeError")
      [] v.t = "bool" -> Ret(PyInt(IF v.b THEN 1 ELSE 0, 0))
      [] v.t = "int" -> Ret(v)
      [] v.t = "float" ->
            IF v.k = "inf" THEN Raise("OverflowError")
            ELSE IF v.k = "nan" THEN Raise("ValueError")
            ELSE LET a == IF v.e >= 0 THEN MkInt(v.m, v.e)
                          ELSE IF NumDigits(v.m) <= -v.e THEN PyInt(0, 0)
                          ELSE MkInt(v.m \div Pow10(-v.e), 0)
                 IN  Ret(IF v.neg THEN PyInt(-a.m, a.e) ELSE a)
      [] v.t = "str" -> ParseInt(v.s)
      [] v.t \in {"list", "dict"} -> Raise("TypeError")

\* field_type(v) for the three target types the callers pass.
Convert(ftype, v) ==
    CASE ftype = "str" -> Ret(PyStr(py_str(v)))
      [] ftype = "float" -> py_float(v)
      [] ftype = "int" -> py_int(v)

(***************************************************************************)
(* normalize_field(field, field_type, default)                             *)
(***************************************************************************)
\* normalize_field returning None, not the default, for an absent value.
normalize_field_none(fld, ftype, dflt) ==
    IF fld.t = "None" THEN Ret(PyNone)
    ELSE LET r == IF fld.t = "list" /\ ftype = "str"
                  THEN Ret(PyStr(Join([i \in 1..Len(fld.items) |-> py_str(fld.items[i])],
                                      s_comma_space)))
                  ELSE IF fld.t = "list"
                  THEN (IF fld.items # <<>> THEN Convert(ftype, fld.items[1]) ELSE Ret(dflt))
                  ELSE IF fld.t = "dict"
                  THEN (IF ftype = "str" THEN Ret(PyStr(json_dumps(fld))) ELSE Ret(dflt))
                  ELSE Convert(ftype, fld)
         IN  IF r.exc \in {"ValueError", "TypeError"} THEN Ret(dflt) ELSE r

\* normalize_field joining a list with "," instead of ", ".
normalize_field_sep(fld, ftype, dflt) ==
    IF fld.t = "None" THEN Ret(dflt)
    ELSE LET r == IF fld.t = "list" /\ ftype = "str"
                  THEN Ret(PyStr(Join([i \in 1..Len(fld.items) |-> py_str(fld.items[i])],
                                      <<",">>)))
                  ELSE IF fld.t = "list"
                  THEN (IF fld.items # <<>> THEN Convert(ftype, fld.items[1]) ELSE Ret(dflt))
                  ELSE IF fld.t = "dict"
                  THEN (IF ftype = "str" THEN Ret(PyStr(json_dumps(fld))) ELSE Ret(dflt))
                  ELSE Convert(ftype, fld)
         IN  IF r.exc \in {"ValueError", "TypeError"} THEN Ret(dflt) ELSE r

normalize_field(fld, ftype, dflt) ==
    IF fld.t = "None" THEN Ret(dflt)
    ELSE LET r == IF fld.t = "list" /\ ftype = "str"
                  THEN Ret(PyStr(Join([i \in 1..Len(fld.items) |-> py_str(fld.items[i])],
                                      s_comma_space)))
                  ELSE IF fld.t = "list"
                  THEN (IF fld.items # <<>> THEN Convert(ftype, fld.items[1]) ELSE Ret(dflt))
                  ELSE IF fld.t = "dict"
                  THEN (IF ftype = "str" THEN Ret(PyStr(json_dumps(fld))) ELSE Ret(dflt))
                  ELSE Convert(ftype, fld)
         IN  IF r.exc \in {"ValueError", "TypeError"} THEN Ret(dflt) ELSE r

(***************************************************************************)
(* The store: the tables schemes, products, scheme_products and            *)
(* scheme_rules, each a sequence of rows in key order (the keys are        *)
(* AUTOINCREMENT and no row is ever deleted).  A row's op is the number of *)
(* the reconciliation that wrote it (0 for the seeded catalogue).          *)
(***************************************************************************)
\* dict.get(key, dflt)
dict_get(d, key, dflt) ==
    IF \E i \in 1..Len(d.items) : d.items[i].k = key
    THEN d.items[CHOOSE i \in 1..Len(d.items) : d.items[i].k = key].v
    ELSE dflt

\* bool(v)
Truthy(v) ==
    CASE v.t = "None" -> FALSE
      [] v.t = "bool" -> v.b
      [] v.t = "int" -> v.m # 0
      [] v.t = "float" -> ~(v.k = "fin" /\ v.m = 0)
      [] v.t = "str" -> v.s # <<>>
      [] v.t \in {"list", "dict"} -> v.items # <<>>

\* The elements a for loop over v visits, or the exception of iter(v).
Iterate(v) ==
    CASE v.t = "list" -> [exc |-> "none", items |-> v.items]
      [] v.t = "dict" -> [exc |-> "none", items |-> [i \in 1..Len(v.items) |-> PyStr(v.items[i].k)]]
      [] v.t = "str" -> [exc |-> "none", items |-> [i \in 1..Len(v.s) |-> PyStr(<<v.s[i]>>)]]
      [] OTHER -> [exc |-> "TypeError", items |-> <<>>]

\* A value as SQLite stores it in a REAL column: an int becomes a float and
\* not-a-number becomes NULL.
sql_real(v) ==
    IF v.t = "int" THEN MkFloat(v.m < 0, Abs(v.m), v.e)
    ELSE IF v.t = "float" /\ v.k = "nan" THEN PyNone
    ELSE v

\* normalize_field(d.get(key), ftype, dflt)
NF(d, key, ftype, dflt) == normalize_field(dict_get(d, key, PyNone), ftype, dflt)

\* One field to normalise: d.get(key) to ftype with default dflt, or, when
\* from is not 0, with the normalised value of field number from as default.
FieldSpec(key, ftype, dflt) == [key |-> key, ftype |-> ftype, dflt |-> dflt, from |-> 0]
FieldSpecFrom(key, ftype, from) == [key |-> key, ftype |-> ftype, dflt |-> PyNone, from |-> from]

\* The outcomes of the normalize_field calls of specs on d, in order.
RECURSIVE NormalizeFields(_, _, _)
NormalizeFields(d, specs, acc) ==
    IF Len(acc) = Len(specs) THEN acc
    ELSE LET sp == specs[Len(acc) + 1]
         IN  NormalizeFields(d, specs,
                 Append(acc, NF(d, sp.key, sp.ftype,
                                IF sp.from = 0 THEN sp.dflt ELSE acc[sp.from].val)))

\* The first exception among the outcomes outs, or "none".
FirstExc(outs) ==
    IF \E i \in 1..Len(outs) : outs[i].exc # "none"
    THEN outs[CHOOSE i \in 1..Len(outs) :
                  outs[i].exc # "none" /\ \A j \in 1..(i - 1) : outs[j].exc = "none"].exc
    ELSE "none"

HexDigits == <<"0", "1", "2", "3", "4", "5", "6", "7", "8", "9", "a", "b", "c", "d", "e", "f">>

RECURSIVE Hex(_, _)
Hex(n, width) == IF width = 0 THEN <<>> ELSE Hex(n \div 16, width - 1) \o <<HexDigits[(n % 16) + 1]>>

\* uuid.uuid4().hex[:8]: a token no other draw returns.  The draws of
\* reconciliation op for its element idx are numbered, two per element.
uuid_hex8(op, idx, which) == Hex(op * 64 + idx * 2 + which, 8)

\* SELECT product_id FROM products WHERE product_name = ? AND product_code = ?
\* followed by fetchone(): the first matching row's key, or 0 for no row.
find_product_never(products, name, code) == 0

find_product(products, name, code) ==
    IF \E i \in 1..Len(products) : products[i].product_name = name /\ products[i].product_code = code
    THEN CHOOSE i \in 1..Len(products) :
            /\ products[i].product_name = name /\ products[i].product_code = code
            /\ \A j \in 1..(i - 1) : ~(products[j].product_name = name /\ products[j].product_code = code)
    ELSE 0

\* The catalogue after a lookup that matched row id: no statement is run.
reuse_product_update(products, id, f) ==
    [products EXCEPT ![id].product_category = f.product_category]

reuse_product(products, id, f) == products

\* conn.rollback(): the store keeps its committed rows.
rollback_partial(committed, working) == working

rollback(committed, working) == committed

\* The six scheme fields, normalised (process_pdf 902-907, app.py 248-253).
scheme_fields(pdf) ==
    << FieldSpec(k_scheme_name, "str", PyStr(s_Scheme_from \o pdf)),
       FieldSpec(k_scheme_type, "str", PyStr(s_Special_Support)),
       FieldSpec(k_scheme_period_start, "str", PyStr(s_2023_01_01)),
       FieldSpec(k_scheme_period_end, "str", PyStr(s_2023_12_31)),
       FieldSpec(k_applicable_region, "str", PyStr(s_All_India)),
       FieldSpec(k_dealer_type_eligibility, "str", PyStr(s_All_Dealers)) >>

\* INSERT INTO schemes
scheme_row(f, pdf, id, op) ==
    [ scheme_id |-> id, scheme_name |-> f[1].val, scheme_type |-> f[2].val,
      scheme_period_start |-> f[3].val, scheme_period_end |-> f[4].val,
      applicable_region |-> f[5].val, dealer_type_eligibility |-> f[6].val,
      scheme_document_name |-> PyStr(pdf),
      deal_status |-> PyStr(s_Active), approval_status |-> PyStr(s_Pending), op |-> op ]

\* The catalogue fields of one product, normalised.  process_pdf normalises
\* nine (932-940), add_new_scheme_from_data three (app.py 277-279).
product_fields(who, op, idx, dp, mrp) ==
    << FieldSpec(k_product_name, "str", PyStr(s_Product \o uuid_hex8(op, idx, 0))),
       FieldSpec(k_product_code, "str", PyStr(s_CODE \o uuid_hex8(op, idx, 1))),
       FieldSpec(k_product_category, "str", PyStr(s_Mobile)) >>
    \o (IF who = "process_pdf"
        THEN << FieldSpec(k_product_subcategory, "str", PyStr(s_Other)),
                FieldSpec(k_ram, "str", PyNone),
                FieldSpec(k_storage, "str", PyNone),
                FieldSpec(k_connectivity, "str", PyNone),
                FieldSpec(k_dealer_price_dp, "float", PyInt(dp, 0)),
                FieldSpec(k_mrp, "float", PyInt(mrp, 0)) >>
        ELSE <<>>)

\* A catalogue row written without its code.
product_row_uncoded(who, f, id, op) ==
    [ product_id |-> id, product_name |-> f[1].val, product_code |-> PyNone,
      product_category |-> f[3].val,
      product_subcategory |-> IF who = "process_pdf" THEN f[4].val ELSE PyNone,
      ram |-> IF who = "process_pdf" THEN f[5].val ELSE PyNone,
      storage |-> IF who = "process_pdf" THEN f[6].val ELSE PyNone,
      connectivity |-> IF who = "process_pdf" THEN f[7].val ELSE PyNone,
      dealer_price_dp |-> IF who = "process_pdf" THEN sql_real(f[8].val) ELSE PyNone,
      mrp |-> IF who = "process_pdf" THEN sql_real(f[9].val) ELSE PyNone,
      op |-> op ]

\* INSERT INTO products: add_new_scheme_from_data names three columns and
\* the others are NULL.
product_row(who, f, id, op) ==
    [ product_id |-> id, product_name |-> f[1].val, product_code |-> f[2].val,
      product_category |-> f[3].val,
      product_subcategory |-> IF who = "process_pdf" THEN f[4].val ELSE PyNone,
      ram |-> IF who = "process_pdf" THEN f[5].val ELSE PyNone,
      storage |-> IF who = "process_pdf" THEN f[6].val ELSE PyNone,
      connectivity |-> IF who = "process_pdf" THEN f[7].val ELSE PyNone,
      dealer_price_dp |-> IF who = "process_pdf" THEN sql_real(f[8].val) ELSE PyNone,
      mrp |-> IF who = "process_pdf" THEN sql_real(f[9].val) ELSE PyNone,
      op |-> op ]

\* The association fields of one product, normalised (972-983, app.py
\* 294-298).  total_payout defaults to the normalised payout_amount.
payout_fields(who, scheme_type) ==
    LET head == << FieldSpec(k_support_type, "str", scheme_type),
                   FieldSpec(k_payout_type, "str", PyStr(s_Fixed)),
                   FieldSpec(k_payout_amount, "float", PyFloat("fin", FALSE, 1, 3)),
                   FieldSpec(k_payout_unit, "str", PyStr(s_INR)) >>
    IN  IF who = "process_pdf"
        THEN head \o
             << FieldSpec(k_dealer_contribution, "float", PyFloat("fin", FALSE, 0, 0)),
                FieldSpecFrom(k_total_payout, "float", 3),
                FieldSpec(k_bundle_price, "float", PyNone),
                FieldSpec(k_free_item_description, "str", PyNone) >>
        ELSE head \o << FieldSpec(k_free_item_description, "str", PyNone) >>

Flag(product, key, dflt) == PyInt(IF Truthy(dict_get(product, key, PyBool(dflt))) THEN 1 ELSE 0, 0)

\* INSERT INTO scheme_products: the columns add_new_scheme_from_data does
\* not name take the table's defaults (NULL, or 0 / 1 where declared).
\* pair records the (name, code) the product was looked up by.
assoc_row(who, f, product, id, scheme_id, product_id, pair, op) ==
    [ id |-> id, scheme_id |-> scheme_id, product_id |-> product_id,
      support_type |-> f[1].val, payout_type |-> f[2].val,
      payout_amount |-> sql_real(f[3].val), payout_unit |-> f[4].val,
      dealer_contribution |-> IF who = "process_pdf" THEN sql_real(f[5].val) ELSE PyInt(0, 0),
      total_payout |-> IF who = "process_pdf" THEN sql_real(f[6].val) ELSE PyNone,
      is_dealer_incentive |-> IF who = "process_pdf" THEN Flag(product, k_is_dealer_incentive, TRUE) ELSE PyInt(1, 0),
      is_bundle_offer |-> IF who = "process_pdf" THEN Flag(product, k_is_bundle_offer, FALSE) ELSE PyInt(0, 0),
      bundle_price |-> IF who = "process_pdf" THEN sql_real(f[7].val) ELSE PyNone,
      is_upgrade_offer |-> IF who = "process_pdf" THEN Flag(product, k_is_upgrade_offer, FALSE) ELSE PyInt(0, 0),
      is_slab_based |-> IF who = "process_pdf" THEN Flag(product, k_is_slab_based, FALSE) ELSE PyInt(0, 0),
      free_item_description |-> IF who = "process_pdf" THEN f[8].val ELSE f[5].val,
      pair |-> pair, op |-> op ]

\* The three rule fields, normalised (1012-1014, app.py 312-314).
rule_fields ==
    << FieldSpec(k_rule_type, "str", PyStr(s_General)),
       FieldSpec(k_rule_description, "str", PyStr(s_No_description)),
       FieldSpec(k_rule_value, "str", PyNone) >>

\* A rule row that names no scheme.
rule_row_unlinked(f, id, scheme_id, op) ==
    [ rule_id |-> id, scheme_id |-> 0, rule_type |-> f[1].val,
      rule_description |-> f[2].val, rule_value |-> f[3].val, op |-> op ]

\* INSERT INTO scheme_rules
rule_row(f, id, scheme_id, op) ==
    [ rule_id |-> id, scheme_id |-> scheme_id, rule_type |-> f[1].val,
      rule_description |-> f[2].val, rule_value |-> f[3].val, op |-> op ]

(***************************************************************************)
(* The values normalize_field is applied to.                               *)
(***************************************************************************)
MaxListLen == 2

f_12_5 == PyFloat("fin", FALSE, 125, -1)
f_1000 == PyFloat("fin", FALSE, 1, 3)
f_inf == PyFloat("inf", FALSE, 0, 0)
\* 10^400, an integer no double holds
i_huge == PyInt(1, 400)

ListElements ==
    { PyNone, PyInt(5, 0), i_huge, f_12_5,
      PyStr(<<"5", "0", "0", "0">>), PyStr(<<"a", "b", "c">>),
      PyList(<<PyInt(5, 0), PyStr(<<"a">>)>>) }

RECURSIVE SeqsUpTo(_, _)
SeqsUpTo(S, n) ==
    IF n = 0 THEN {<<>>}
    ELSE LET shorter == SeqsUpTo(S, n - 1)
         IN  shorter \cup {Append(q, x) : q \in {r \in shorter : Len(r) = n - 1}, x \in S}

FieldValues ==
    { PyNone, PyBool(TRUE), PyInt(0, 0), PyInt(5, 0), PyInt(-5, 0), i_huge, f_12_5, f_inf,
      PyStr(<<>>), PyStr(<<"5", "0", "0", "0">>), PyStr(<<"5", ",", "0", "0", "0">>),
      PyStr(<<"1", "2", ".", "5">>), PyStr(<<"a", "b", "c">>),
      PyDict(<<>>), PyDict(<<[k |-> <<"a">>, v |-> PyInt(5, 0)]>>) }
    \cup {PyList(q) : q \in SeqsUpTo(ListElements, MaxListLen)}

FieldTypes == {"str", "float", "int"}
Defaults == {PyNone, f_1000, PyStr(s_INR)}

Pending == [exc |-> "pending", val |-> PyNone]

(***************************************************************************)
(* The extraction adapter's state while the normaliser or the store is     *)
(* exercised alone.                                                        *)
(***************************************************************************)
IdleNormalize ==
    /\ field = PyNone /\ field_type = "str" /\ default = PyNone /\ nf_result = Pending

IdleExtract ==
    /\ text = <<>> /\ document_name = <<>> /\ client = "absent" /\ rnd = <<>>
    /\ ex_result = Pending /\ rb_result = Pending

(***************************************************************************)
(* The extraction results the reconcilers are given.                       *)
(***************************************************************************)
Item(k, v) == [k |-> k, v |-> v]

\* the catalogued pair, with a category other than the catalogued one
p_catalogued ==
    PyDict(<< Item(k_product_name, PyStr(s_Samsung_Galaxy_S21_FE)), Item(k_product_code, PyStr(s_SM_G990B)),
              Item(k_product_category, PyStr(s_Tablet)),
              Item(k_payout_amount, PyFloat("fin", FALSE, 5, 3)) >>)
\* a pair not catalogued, every other field null or missing
p_new ==
    PyDict(<< Item(k_product_name, PyStr(<<"A">>)), Item(k_product_code, PyStr(<<"X">>)),
              Item(k_product_category, PyNone), Item(k_payout_amount, PyNone) >>)
\* the same pair as p_new (its name a one-element list), other attributes
p_same_pair ==
    PyDict(<< Item(k_product_name, PyList(<<PyStr(<<"A">>)>>)), Item(k_product_code, PyStr(<<"X">>)),
              Item(k_product_category, PyStr(s_Tablet)),
              Item(k_payout_amount, PyInt(-5, 0)), Item(k_total_payout, PyStr(<<"7">>)) >>)
\* neither name nor code
p_anonymous ==
    PyDict(<< Item(k_payout_amount, PyStr(<<"a", "b", "c">>)) >>)
\* a payout no double holds: float() raises OverflowError after the
\* catalogue row is written
p_overflow ==
    PyDict(<< Item(k_product_name, PyStr(<<"B">>)), Item(k_product_code, PyStr(<<"X">>)),
              Item(k_payout_amount, i_huge) >>)

r_eligibility ==
    PyDict(<< Item(k_rule_type, PyStr(<<"E">>)), Item(k_rule_description, PyStr(<<"d">>)),
              Item(k_rule_value, PyNone) >>)
r_empty == PyDict(<< Item(k_rule_value, PyStr(<<"v">>)) >>)

SchemeHead ==
    << Item(k_scheme_name, PyStr(<<"S">>)), Item(k_scheme_type, PyStr(<<"R", "C", "M">>)),
       Item(k_scheme_period_start, PyStr(<<"2", "0", "2", "4", "-", "0", "1", "-", "0", "1">>)),
       Item(k_scheme_period_end, PyNone),
       Item(k_applicable_region, PyList(<<PyStr(<<"N">>), PyStr(<<"E">>)>>)),
       Item(k_dealer_type_eligibility, PyStr(<<"G", "T">>)) >>

Doc(name, data) == [pdf |-> <<name>> \o <<".", "p", "d", "f">>, data |-> data]

Documents ==
    { Doc("a", PyDict(SchemeHead \o << Item(k_products, PyList(<<p_catalogued>>)),
                                      Item(k_scheme_rules, PyList(<<r_eligibility>>)) >>)),
      Doc("b", PyDict(<< Item(k_products, PyList(<<p_new, p_new>>)) >>)),
      Doc("c", PyDict(SchemeHead \o << Item(k_products, PyList(<<p_same_pair, p_anonymous>>)),
                                      Item(k_scheme_rules, PyList(<<r_eligibility, r_empty>>)) >>)),
      Doc("d", PyDict(SchemeHead \o << Item(k_products, PyList(<<p_new, p_overflow>>)),
                                      Item(k_scheme_rules, PyList(<<r_eligibility>>)) >>)),
      Doc("e", PyDict(<< Item(k_scheme_name, PyNone), Item(k_products, PyNone) >>)),
      Doc("f", PyDict(<< Item(k_scheme_rules, PyList(<<r_empty, PyStr(<<"x">>)>>)) >>)),
      Doc("g", PyDict(<<>>)) }

Reconcilers == {"process_pdf", "add_new_scheme_from_data"}

\* random.randint(10000, 100000) and random.randint(15000, 120000), the
\* defaults of dealer_price_dp and mrp: both draws at the low end of their
\* ranges, or both at the high end
RandPrices == {<<10000, 15000>>, <<100000, 120000>>}

(***************************************************************************)
(* The reconcilers, one store command per step.  Each runs on its own      *)
(* connection; SQLite gives the write lock to one connection from its      *)
(* first INSERT to its commit or rollback.                                 *)
(***************************************************************************)
MaxRuns == 2
Conns == {1, 2}

EmptyStore == [schemes |-> <<>>, products |-> <<>>, scheme_products |-> <<>>, scheme_rules |-> <<>>]

\* add_sample_data: the catalogue row of the Galaxy S21 FE.
SeedProduct ==
    [ product_id |-> 1, product_name |-> PyStr(s_Samsung_Galaxy_S21_FE),
      product_code |-> PyStr(s_SM_G990B), product_category |-> PyStr(s_Mobile),
      product_subcategory |-> PyStr(s_S_Series), ram |-> PyStr(s_8GB),
      storage |-> PyStr(s_128GB), connectivity |-> PyStr(s_5G),
      dealer_price_dp |-> PyFloat("fin", FALSE, 49999, 0), mrp |-> PyFloat("fin", FALSE, 54999, 0),
      op |-> 0 ]

IdleConn ==
    [ pc |-> "idle", who |-> "none", data |-> PyNone, pdf |-> <<>>, op |-> 0,
      prods |-> <<>>, rules |-> <<>>, idx |-> 0, scheme_id |-> 0, scheme_type |-> PyNone,
      f |-> <<>>, product_id |-> 0, work |-> EmptyStore, ret |-> PyNone, staged |-> 0 ]

IdleStore ==
    /\ db = EmptyStore /\ conn = [c \in Conns |-> IdleConn] /\ ops = <<>>

\* Neither the batch ingestion nor the application is running.
IdleIngest == pg = [pc |-> "idle"]
IdleApp == app = [pc |-> "idle"]

StorePcs == {"lookup", "insert_product", "insert_assoc", "insert_rule", "commit"}

\* A store without a write lock.
Locked_never(c) == FALSE

\* Another connection holds the write lock.
Locked(c) == \E o \in Conns \ {c} : conn[o].pc \in StorePcs

\* connect_db() opens a new connection for every call: the call takes the
\* first connection that no running reconciliation uses.
Free(c) ==
    /\ conn[c].pc \in {"idle", "done"}
    /\ \A o \in Conns : o < c => conn[o].pc \notin {"idle", "done"}

FailValue(who) == IF who = "process_pdf" THEN PyBool(FALSE) ELSE PyNone
OkValue(cn) == IF cn.who = "process_pdf" THEN PyBool(TRUE) ELSE PyInt(cn.scheme_id, 0)

Done(cn, ret) ==
    [cn EXCEPT !.pc = "done", !.ret = ret, !.prods = <<>>, !.rules = <<>>, !.idx = 0,
               !.f = <<>>, !.product_id = 0, !.work = EmptyStore]

\* The number of rows of the working copy that are not committed.
Staged(working) ==
    (Len(working.schemes) - Len(db.schemes)) + (Len(working.products) - Len(db.products))
    + (Len(working.scheme_products) - Len(db.scheme_products))
    + (Len(working.scheme_rules) - Len(db.scheme_rules))

\* except Exception: conn.rollback(); return the failure value.  staged
\* records how many rows the transaction had written.
Except(c, cn, working) ==
    /\ db' = rollback(db, working)
    /\ conn' = [conn EXCEPT ![c] = Done([cn EXCEPT !.staged = Staged(working)], FailValue(cn.who))]
    /\ ops' = [ops EXCEPT ![cn.op] = "failed"]

\* The connection on leaving the product loop: the rule loop's first
\* element, the commit when there is no rule, or pc "except" when
\* scheme_rules cannot be iterated.
AfterProducts(cn) ==
    LET it == Iterate(dict_get(cn.data, k_scheme_rules, PyList(<<>>)))
    IN  IF it.exc # "none" THEN [cn EXCEPT !.pc = "except"]
        ELSE IF it.items = <<>> THEN [cn EXCEPT !.pc = "commit", !.idx = 0, !.f = <<>>, !.product_id = 0]
        ELSE [cn EXCEPT !.pc = "insert_rule", !.rules = it.items, !.idx = 1, !.f = <<>>, !.product_id = 0]

Continue(c, cn) ==
    IF cn.pc = "except" THEN Except(c, cn, cn.work)
    ELSE /\ conn' = [conn EXCEPT ![c] = cn]
         /\ UNCHANGED <<db, ops>>

\* The fields specs of the mapping d, normalised; a value that is no
\* mapping has no get: AttributeError.
Normalized(d, specs) ==
    IF d.t # "dict" THEN <<Raise("AttributeError")>> ELSE NormalizeFields(d, specs, <<>>)

\* The reconciler up to its first store command: the scheme fields are
\* normalised and the scheme row is inserted (process_pdf 892-927, app.py
\* 239-273); then the product loop is entered.
begin(c, who, doc) ==
    /\ UNCHANGED <<nf_vars, ex_vars, pg, app>>
    /\ Free(c)
    /\ Len(ops) < MaxRuns
    /\ ~Locked(c)
    /\ LET op == Len(ops) + 1
           cn0 == [IdleConn EXCEPT !.who = who, !.data = doc.data, !.pdf = doc.pdf, !.op = op]
           refused == who = "process_pdf" /\ ~Truthy(doc.data)
       IN  \E f \in {Normalized(doc.data, scheme_fields(doc.pdf))} :
           IF refused \/ FirstExc(f) # "none"
           THEN /\ db' = db
                /\ conn' = [conn EXCEPT ![c] = Done(cn0, FailValue(who))]
                /\ ops' = Append(ops, "failed")
           ELSE LET id == Len(db.schemes) + 1
                    w == [db EXCEPT !.schemes = Append(@, scheme_row(f, doc.pdf, id, op))]
                    it == Iterate(dict_get(doc.data, k_products, PyList(<<>>)))
                    cn1 == [cn0 EXCEPT !.work = w, !.scheme_id = id, !.scheme_type = f[2].val]
                    cn2 == IF it.exc # "none" THEN [cn1 EXCEPT !.pc = "except"]
                           ELSE IF it.items = <<>> THEN AfterProducts(cn1)
                           ELSE [cn1 EXCEPT !.pc = "lookup", !.prods = it.items, !.idx = 1]
                IN  IF cn2.pc = "except"
                    THEN /\ db' = rollback(db, w)
                         /\ conn' = [conn EXCEPT ![c] = Done([cn2 EXCEPT !.staged = 1], FailValue(who))]
                         /\ ops' = Append(ops, "failed")
                    ELSE /\ conn' = [conn EXCEPT ![c] = cn2]
                         /\ ops' = Append(ops, "running")
                         /\ db' = db

\* The scheme INSERT while another connection holds the write lock and
\* does not release it within the busy timeout: "database is locked".
begin_locked(c, who, doc) ==
    /\ UNCHANGED <<nf_vars, ex_vars, pg, app>>
    /\ Free(c)
    /\ Len(ops) < MaxRuns
    /\ Locked(c)
    /\ LET cn0 == [IdleConn EXCEPT !.who = who, !.data = doc.data, !.pdf = doc.pdf, !.op = Len(ops) + 1]
       IN  /\ conn' = [conn EXCEPT ![c] = Done(cn0, FailValue(who))]
           /\ ops' = Append(ops, "failed")
           /\ db' = db

\* One product: its catalogue fields are normalised and the catalogue is
\* searched for its (name, code) (932-950, app.py 277-285).
lookup(c) ==
    /\ UNCHANGED <<nf_vars, ex_vars, pg, app>>
    /\ conn[c].pc = "lookup"
    /\ LET cn == conn[c]
           product == cn.prods[cn.idx]
       IN  \E draw \in RandPrices :
              \E f \in {Normalized(product, product_fields(cn.who, cn.op, cn.idx, draw[1], draw[2]))} :
                  IF FirstExc(f) # "none" THEN Except(c, cn, cn.work)
                  ELSE LET id == find_product(cn.work.products, f[1].val, f[2].val)
                       IN  /\ conn' = [conn EXCEPT ![c] =
                                 [cn EXCEPT !.f = f, !.product_id = id,
                                            !.pc = IF id = 0 THEN "insert_product" ELSE "insert_assoc",
                                            !.work.products =
                                                IF id = 0 THEN @
                                                ELSE reuse_product(@, id, [product_category |-> f[3].val])]]
                           /\ UNCHANGED <<db, ops>>

\* No catalogue row matched: INSERT INTO products (953-969, app.py 287-291).
insert_product(c) ==
    /\ UNCHANGED <<nf_vars, ex_vars, pg, app>>
    /\ conn[c].pc = "insert_product"
    /\ LET cn == conn[c]
           id == Len(cn.work.products) + 1
       IN  /\ conn' = [conn EXCEPT ![c] =
                 [cn EXCEPT !.work.products = Append(@, product_row(cn.who, cn.f, id, cn.op)),
                            !.product_id = id, !.pc = "insert_assoc"]]
           /\ UNCHANGED <<db, ops>>

\* The association fields are normalised and the scheme_products row is
\* inserted (972-1007, app.py 294-308); then the next product, or the rules.
insert_assoc(c) ==
    /\ UNCHANGED <<nf_vars, ex_vars, pg, app>>
    /\ conn[c].pc = "insert_assoc"
    /\ LET cn == conn[c]
           product == cn.prods[cn.idx]
       IN  \E f \in {Normalized(product, payout_fields(cn.who, cn.scheme_type))} :
           IF FirstExc(f) # "none" THEN Except(c, cn, cn.work)
           ELSE LET row == assoc_row(cn.who, f, product, Len(cn.work.scheme_products) + 1,
                                     cn.scheme_id, cn.product_id, <<cn.f[1].val, cn.f[2].val>>, cn.op)
                    cn1 == [cn EXCEPT !.work.scheme_products = Append(@, row)]
                IN  IF cn.idx < Len(cn.prods)
                    THEN Continue(c, [cn1 EXCEPT !.idx = @ + 1, !.pc = "lookup", !.f = <<>>, !.product_id = 0])
                    ELSE Continue(c, AfterProducts(cn1))

\* One rule: its fields are normalised and the scheme_rules row is
\* inserted (1010-1025, app.py 311-319).
insert_rule(c) ==
    /\ UNCHANGED <<nf_vars, ex_vars, pg, app>>
    /\ conn[c].pc = "insert_rule"
    /\ LET cn == conn[c]
           rule == cn.rules[cn.idx]
       IN  \E f \in {Normalized(rule, rule_fields)} :
           IF FirstExc(f) # "none" THEN Except(c, cn, cn.work)
           ELSE LET row == rule_row(f, Len(cn.work.scheme_rules) + 1, cn.scheme_id, cn.op)
                    cn1 == [cn EXCEPT !.work.scheme_rules = Append(@, row)]
                IN  Continue(c, IF cn.idx < Len(cn.rules) THEN [cn1 EXCEPT !.idx = @ + 1]
                                ELSE [cn1 EXCEPT !.pc = "commit", !.idx = 0])

\* conn.commit() and the success value (1027-1029, app.py 321-322).
commit(c) ==
    /\ UNCHANGED <<nf_vars, ex_vars, pg, app>>
    /\ conn[c].pc = "commit"
    /\ db' = conn[c].work
    /\ conn' = [conn EXCEPT ![c] = Done(conn[c], OkValue(conn[c]))]
    /\ ops' = [ops EXCEPT ![conn[c].op] = "ok"]

\* The pending store command (lookup, product insert, association insert,
\* rule insert or commit) raises: the handler rolls back (1031-1034,
\* app.py 323-326).
store_error(c) ==
    /\ UNCHANGED <<nf_vars, ex_vars, pg, app>>
    /\ conn[c].pc \in StorePcs
    /\ Except(c, conn[c], conn[c].work)

Init ==
    /\ db = [EmptyStore EXCEPT !.products = <<SeedProduct>>]
    /\ conn = [c \in Conns |-> IdleConn]
    /\ ops = <<>>
    /\ IdleNormalize
    /\ IdleExtract
    /\ IdleIngest
    /\ IdleApp

Next ==
    \/ \E c \in Conns, who \in Reconcilers, doc \in Documents : begin(c, who, doc)
    \/ \E c \in Conns, who \in Reconcilers, doc \in Documents : begin_locked(c, who, doc)
    \/ \E c \in Conns : lookup(c)
    \/ \E c \in Conns : insert_product(c)
    \/ \E c \in Conns : insert_assoc(c)
    \/ \E c \in Conns : insert_rule(c)
    \/ \E c \in Conns : commit(c)
    \/ \E c \in Conns : store_error(c)

Spec == Init /\ [][Next]_vars

\* The reconciliations that have a row in store s.
OpsIn(s) ==
    {s.schemes[i].op : i \in 1..Len(s.schemes)}
    \cup {s.products[i].op : i \in 1..Len(s.products)}
    \cup {s.scheme_products[i].op : i \in 1..Len(s.scheme_products)}
    \cup {s.scheme_rules[i].op : i \in 1..Len(s.scheme_rules)}

\* C1: reconciliation is all-or-nothing: the store holds no scheme, product,
\* scheme_products or scheme_rules row of a reconciliation that failed, at
\* whichever store command it failed, and a failed reconciliation returned
\* its failure value (False from process_pdf, None from
\* add_new_scheme_from_data).
C1_AllOrNothing ==
    /\ \A o \in 1..Len(ops) : ops[o] \in {"failed", "running"} => o \notin OpsIn(db)
    /\ \A c \in Conns :
          (conn[c].pc = "done" /\ ops[conn[c].op] = "failed")
              => conn[c].ret = FailValue(conn[c].who)

\* process_pdf failed after it had written its scheme row, a catalogue row
\* and an association row, and add_new_scheme_from_data failed at a later
\* time after it had written rows.
C1_Witness ==
    /\ \E c \in Conns :
          /\ conn[c].pc = "done" /\ conn[c].who = "process_pdf" /\ conn[c].staged >= 3
          /\ ops[conn[c].op] = "failed" /\ conn[c].ret = PyBool(FALSE)
          /\ conn[c].op \notin OpsIn(db)
    /\ \E o \in 1..Len(ops) : ops[o] = "ok"

SamePair(p, q) == p.product_name = q.product_name /\ p.product_code = q.product_code

\* C2: the catalogue never holds two rows with one (name, code) pair, and
\* every association row is linked to the one catalogue row that carries the
\* normalised (name, code) pair its product was looked up by: the existing
\* row when the pair was catalogued or occurred earlier in the same
\* extraction result, one new row otherwise.
C2_OneRowPerPair ==
    /\ \A i, j \in 1..Len(db.products) : SamePair(db.products[i], db.products[j]) => i = j
    /\ \A i \in 1..Len(db.scheme_products) :
          LET r == db.scheme_products[i]
          IN  /\ r.product_id \in 1..Len(db.products)
              /\ r.pair = <<db.products[r.product_id].product_name, db.products[r.product_id].product_code>>

\* A committed reconciliation linked a product to the catalogued Galaxy S21
\* FE row, and another linked two products of one extraction result to the
\* one catalogue row it created for their pair.
C2_Witness ==
    /\ \E i \in 1..Len(db.scheme_products) :
          db.scheme_products[i].product_id = 1 /\ db.scheme_products[i].op > 0
    /\ \E i, j \in 1..Len(db.scheme_products) :
          /\ i < j
          /\ db.scheme_products[i].op = db.scheme_products[j].op
          /\ db.scheme_products[i].product_id = db.scheme_products[j].product_id
          /\ db.products[db.scheme_products[i].product_id].op = db.scheme_products[i].op

\* The lookup of connection c matched a catalogue row in this step.
Matched(c) == conn[c].pc = "lookup" /\ conn'[c].pc = "insert_assoc"

\* C3: a lookup that finds the product's (name, code) in the catalogue leaves
\* every attribute of every catalogue row as it was, and no step changes a
\* committed catalogue row.
C3_MatchedRowUnchanged ==
    [][ /\ \A c \in Conns : Matched(c) => conn'[c].work.products = conn[c].work.products
        /\ \A i \in 1..Len(db.products) :
              i <= Len(db'.products) /\ db'.products[i] = db.products[i] ]_vars

\* A lookup matched the catalogued Galaxy S21 FE row with an extracted
\* category other than the stored one, and the row is as it was seeded.
C3_Witness ==
    \E c \in Conns :
        /\ conn[c].pc = "insert_assoc" /\ conn[c].product_id = 1
        /\ conn[c].f[3].val = PyStr(s_Tablet)
        /\ SeedProduct.product_category # conn[c].f[3].val
        /\ conn[c].work.products[1] = SeedProduct

(***************************************************************************)
(* SpecNormalize: one call of normalize_field on every input of the        *)
(* bounded universe.                                                       *)
(***************************************************************************)
InitNormalize ==
    /\ field \in FieldValues
    /\ field_type \in FieldTypes
    /\ default \in Defaults
    /\ nf_result = Pending
    /\ IdleExtract
    /\ IdleStore
    /\ IdleIngest
    /\ IdleApp

normalize_call ==
    /\ nf_result = Pending
    /\ nf_result' = normalize_field(field, field_type, default)
    /\ UNCHANGED <<field, field_type, default, ex_vars, db_vars, pg, app>>

NextNormalize == normalize_call

SpecNormalize == InitNormalize /\ [][NextNormalize]_vars

Called == nf_result # Pending

HasType(v, ftype) == v.t = ftype

\* C6: normalize_field is total: for every value and every target type it
\* returns a value of the target type or the default, and never raises.
C6_Total ==
    Called => /\ nf_result.exc = "none"
              /\ HasType(nf_result.val, field_type) \/ nf_result.val = default

\* C7: normalize_field(None, T, default) returns default unchanged.
C7_NoneGivesDefault ==
    (Called /\ field = PyNone) => nf_result = Ret(default)

C7_Witness ==
    /\ Called /\ field = PyNone /\ field_type = "float" /\ default = f_1000
    /\ nf_result = Ret(f_1000)

\* The string forms of the elements, in order, with ", " between them.
RECURSIVE CommaJoined(_)
CommaJoined(items) ==
    IF items = <<>> THEN <<>>
    ELSE IF Len(items) = 1 THEN py_str(items[1])
    ELSE CommaJoined(SubSeq(items, 1, Len(items) - 1)) \o <<",", " ">> \o py_str(items[Len(items)])

\* C8: for a list and a textual target, the result is the string forms of
\* the elements, in order, joined by ", ".
C8_ListToText ==
    (Called /\ field.t = "list" /\ field_type = "str")
        => nf_result = Ret(PyStr(CommaJoined(field.items)))

C8_Witness ==
    /\ Called /\ field_type = "str"
    /\ field = PyList(<<PyNone, PyList(<<PyInt(5, 0), PyStr(<<"a">>)>>)>>)
    /\ nf_result = Ret(PyStr(<<"N", "o", "n", "e", ",", " ", "[", "5", ",", " ", "'", "a", "'", "]">>))

\* C9: for a list and a numeric target, the result is the coercion of the
\* first element, the default for the empty list, and the default when the
\* first element cannot be coerced.
C9_ListToNumber ==
    (Called /\ field.t = "list" /\ field_type \in {"float", "int"})
        => IF field.items = <<>> THEN nf_result = Ret(default)
           ELSE LET c == Convert(field_type, field.items[1])
                IN  nf_result = (IF c.exc = "none" THEN c ELSE Ret(default))

(***************************************************************************)
(* The literals of the extractors.                                         *)
(***************************************************************************)
s_RCM ==
    <<"R", "C", "M">>
s_Upgrade_Program ==
    <<"U", "p", "g", "r", "a", "d", "e", " ", "P", "r", "o", "g", "r", "a", "m">>
s_Upgrade ==
    <<"U", "p", "g", "r", "a", "d", "e">>
s_Bundle ==
    <<"B", "u", "n", "d", "l", "e">>
s_Bundle_Offer ==
    <<"B", "u", "n", "d", "l", "e", " ", "O", "f", "f", "e", "r">>
s_North ==
    <<"N", "o", "r", "t", "h">>
s_East ==
    <<"E", "a", "s", "t">>
s_South ==
    <<"S", "o", "u", "t", "h">>
s_West ==
    <<"W", "e", "s", "t">>
s_North_and_East ==
    <<"N", "o", "r", "t", "h", " ", "a", "n", "d", " ", "E", "a", "s", "t">>
s_South_and_West ==
    <<"S", "o", "u", "t", "h", " ", "a", "n", "d", " ", "W", "e", "s", "t">>
s_MBO ==
    <<"M", "B", "O">>
s_GT ==
    <<"G", "T">>
s_SEZ ==
    <<"S", "E", "Z">>
s_Blue_Wave ==
    <<"B", "l", "u", "e", " ", "W", "a", "v", "e">>
s_SEZ_and_Blue_Wave ==
    <<"S", "E", "Z", " ", "a", "n", "d", " ", "B", "l", "u", "e", " ", "W", "a", "v", "e">>
s_Galaxy_ ==
    <<"G", "a", "l", "a", "x", "y", " ">>
s_Tab_ ==
    <<"T", "a", "b", " ">>
s_Tab ==
    <<"T", "a", "b">>
s_Rs ==
    <<"R", "s">>
s_free ==
    <<"f", "r", "e", "e">>
s_complimentary ==
    <<"c", "o", "m", "p", "l", "i", "m", "e", "n", "t", "a", "r", "y">>
s_included ==
    <<"i", "n", "c", "l", "u", "d", "e", "d">>
s_Galaxy_Buds2_Pro ==
    <<"G", "a", "l", "a", "x", "y", " ", "B", "u", "d", "s", "2", " ", "P", "r", "o">>
s_Galaxy_Watch4 ==
    <<"G", "a", "l", "a", "x", "y", " ", "W", "a", "t", "c", "h", "4">>
s_S21_FE ==
    <<"S", "2", "1", " ", "F", "E">>
s_Galaxy_S21_FE ==
    <<"G", "a", "l", "a", "x", "y", " ", "S", "2", "1", " ", "F", "E">>
s_Galaxy_S23 ==
    <<"G", "a", "l", "a", "x", "y", " ", "S", "2", "3">>
s__Series ==
    <<" ", "S", "e", "r", "i", "e", "s">>
s_GB ==
    <<"G", "B">>
s_4G ==
    <<"4", "G">>
s_4G_5G ==
    <<"4", "G", "/", "5", "G">>
s_Eligibility ==
    <<"E", "l", "i", "g", "i", "b", "i", "l", "i", "t", "y">>
s_Period ==
    <<"P", "e", "r", "i", "o", "d">>
s_Applicable_for_ ==
    <<"A", "p", "p", "l", "i", "c", "a", "b", "l", "e", " ", "f", "o", "r", " ">>
s_Valid_from_ ==
    <<"V", "a", "l", "i", "d", " ", "f", "r", "o", "m", " ">>
s__to_ ==
    <<" ", "t", "o", " ">>
s_20 ==
    <<"2", "0">>
k_content ==
    <<"c", "o", "n", "t", "e", "n", "t">>
k_text ==
    <<"t", "e", "x", "t">>
\* The grave accent, which a string of this notation cannot hold, is the
\* character "grave".
s_fence_json ==
    <<"grave", "grave", "grave", "j", "s", "o", "n">>
s_fence ==
    <<"grave", "grave", "grave">>

(***************************************************************************)
(* Text matching: the str methods and the regular expressions of           *)
(* rule_based_extraction, on texts of ASCII characters.                    *)
(***************************************************************************)
Min(a, b) == IF a < b THEN a ELSE b
SetMax(S) == CHOOSE x \in S : \A y \in S : y <= x
SetMin(S) == CHOOSE x \in S : \A y \in S : x <= y

\* s has sub at position i
At(s, i, sub) == i + Len(sub) - 1 <= Len(s) /\ SubSeq(s, i, i + Len(sub) - 1) = sub

\* s has the lower-case sub at position i, in any case (re.IGNORECASE)
AtIgnoreCase(s, i, sub) == i + Len(sub) - 1 <= Len(s) /\ Lower(SubSeq(s, i, i + Len(sub) - 1)) = sub

\* sub in s
HasSub(s, sub) == \E i \in 1..(Len(s) - Len(sub) + 1) : At(s, i, sub)

\* s.split(c)
RECURSIVE Split(_, _)
Split(s, c) ==
    LET i == IndexOf(s, {c})
    IN  IF i = 0 THEN <<s>> ELSE <<SubSeq(s, 1, i - 1)>> \o Split(SubSeq(s, i + 1, Len(s)), c)

\* s.replace(c, "")
Remove(s, c) == SelectSeq(s, LAMBDA x : x # c)

\* s.zfill(2)
Zfill2(s) == IF Len(s) < 2 THEN Zeros(2 - Len(s)) \o s ELSE s

\* The character classes \d, \s, [A-Za-z0-9], [A-Za-z0-9\s] and [A-Z], and
\* the white space of JSON.
InClass(cls, c) ==
    CASE cls = "digit" -> IsDigit(c)
      [] cls = "space" -> IsSpace(c)
      [] cls = "alnum" -> IsAlnum(c)
      [] cls = "alnum_space" -> IsAlnum(c) \/ IsSpace(c)
      [] cls = "upper" -> IsUpper(c)
      [] cls = "json_space" -> c \in {" ", "\t", "\n", "\r"}

\* The number of characters of class cls that s has in a row from position i.
Run(s, i, cls) ==
    IF i > Len(s) THEN 0
    ELSE IF \E j \in i..Len(s) : ~InClass(cls, s[j])
    THEN (CHOOSE j \in i..Len(s) : ~InClass(cls, s[j]) /\ \A k \in i..(j - 1) : InClass(cls, s[k])) - i
    ELSE Len(s) - i + 1

\* A match: the group starts at from and the match ends before to.
NoMatch == [from |-> 0, to |-> 0]

\* (\d{1,2}[/-]\d{1,2}[/-]\d{2,4}) at position i
MatchDate(s, i) ==
    LET a == Run(s, i, "digit")
        p == i + a
        b == Run(s, p + 1, "digit")
        q == p + 1 + b
        c == Run(s, q + 1, "digit")
    IN  IF /\ a \in {1, 2} /\ p <= Len(s) /\ s[p] \in {"/", "-"}
           /\ b \in {1, 2} /\ q <= Len(s) /\ s[q] \in {"/", "-"}
           /\ c >= 2
        THEN [from |-> i, to |-> q + 1 + Min(c, 4)]
        ELSE NoMatch

\* ([A-Z]\d+[A-Z]?) at position i
MatchModel(s, i) ==
    LET d == Run(s, i + 1, "digit")
        e == i + 1 + d
    IN  IF IsUpper(s[i]) /\ d >= 1
        THEN [from |-> i, to |-> IF e <= Len(s) /\ IsUpper(s[e]) THEN e + 1 ELSE e]
        ELSE NoMatch

\* (Galaxy [A-Za-z0-9]+) and (Tab [A-Za-z0-9]+) at position i: word is the
\* name with its space.
MatchWord(word, s, i) ==
    LET r == Run(s, i + Len(word), "alnum")
    IN  IF At(s, i, word) /\ r >= 1 THEN [from |-> i, to |-> i + Len(word) + r] ELSE NoMatch

\* The end of (?:,\d{3})* from position k.
RECURSIVE Thousands(_, _)
Thousands(s, k) ==
    IF k <= Len(s) /\ s[k] = "," /\ Run(s, k + 1, "digit") >= 3 THEN Thousands(s, k + 4) ELSE k

\* (?:Rs\.?|INR)\s*(\d{1,3}(?:,\d{3})*(?:\.\d{1,2})?) at position i
MatchAmount(s, i) ==
    LET j == IF At(s, i, s_Rs) THEN (IF At(s, i + 2, <<".">>) THEN i + 3 ELSE i + 2)
             ELSE IF At(s, i, s_INR) THEN i + 3
             ELSE 0
        g == j + Run(s, j, "space")
        d == Run(s, g, "digit")
        k == Thousands(s, g + Min(d, 3))
        f == Run(s, k + 1, "digit")
    IN  IF j # 0 /\ d >= 1
        THEN [from |-> g, to |-> IF k <= Len(s) /\ s[k] = "." /\ f >= 1 THEN k + 1 + Min(f, 2) ELSE k]
        ELSE NoMatch

s_buds ==
    <<"b", "u", "d", "s">>
s_watch ==
    <<"w", "a", "t", "c", "h">>
s_headphone ==
    <<"h", "e", "a", "d", "p", "h", "o", "n", "e">>
s_earphone ==
    <<"e", "a", "r", "p", "h", "o", "n", "e">>
s_charger ==
    <<"c", "h", "a", "r", "g", "e", "r">>
s_cover ==
    <<"c", "o", "v", "e", "r">>
s_case ==
    <<"c", "a", "s", "e">>
s_adapter ==
    <<"a", "d", "a", "p", "t", "e", "r">>
FreeItemWords == <<s_buds, s_watch, s_headphone, s_earphone, s_charger, s_cover, s_case, s_adapter>>

\* word\s+([A-Za-z0-9\s]+(?:Buds|Watch|Headphone|Earphone|Charger|Cover|
\* Case|Adapter)[A-Za-z0-9\s]*) at position i, ignoring case.  \s+ takes k
\* of the w white spaces after the word, the most that leave a character
\* and then one of the words in the run of letters, digits and spaces; the
\* group is the rest of that run.
MatchFree(word, s, i) ==
    LET a == i + Len(word)
        w == Run(s, a, "space")
        e == a + Run(s, a, "alnum_space")
        ks == {k \in 1..w : \E p \in (a + k + 1)..(e - 1) :
                               \E n \in 1..Len(FreeItemWords) : AtIgnoreCase(s, p, FreeItemWords[n])}
    IN  IF AtIgnoreCase(s, i, word) /\ ks # {} THEN [from |-> a + SetMax(ks), to |-> e] ELSE NoMatch

Match(pat, s, i) ==
    CASE pat = "date" -> MatchDate(s, i)
      [] pat = "model" -> MatchModel(s, i)
      [] pat = "galaxy" -> MatchWord(s_Galaxy_, s, i)
      [] pat = "tab" -> MatchWord(s_Tab_, s, i)
      [] pat = "amount" -> MatchAmount(s, i)
      [] pat = "free" -> MatchFree(s_free, s, i)
      [] pat = "complimentary" -> MatchFree(s_complimentary, s, i)
      [] pat = "included" -> MatchFree(s_included, s, i)

\* The value of the one element of S.
The(S) == CHOOSE x \in S : TRUE

\* re.findall(pat, s): the groups of the matches from position i on, left
\* to right, each search starting where the last match ended.
RECURSIVE FindAll(_, _, _)
FindAll(pat, s, i) ==
    The({ IF hits = {} THEN <<>>
          ELSE The({ <<SubSeq(s, m.from, m.to - 1)>> \o FindAll(pat, s, m.to) :
                     m \in {Match(pat, s, SetMin(hits))} }) :
          hits \in {{p \in i..Len(s) : Match(pat, s, p).to # 0}} })

Patterns == {"date", "model", "galaxy", "tab", "amount", "free", "complimentary", "included"}

\* The groups re.findall returns on s for each pattern.
Found(s) == [pat \in Patterns |-> FindAll(pat, s, 1)]

(***************************************************************************)
(* rule_based_extraction(text, document_name)                              *)
(***************************************************************************)
\* The random source: the n-th draw of a stream is the low or the high end
\* of what the call can return.
RandStreams == {"low_high", "high_low"}

Bit(stream, n) == IF stream = "low_high" THEN (n + 1) % 2 ELSE n % 2

\* random.randint(a, b), random.choice(q) and random.random() > 0.5 as the
\* n-th draw
randint(stream, n, a, b) == IF Bit(stream, n) = 0 THEN a ELSE b
choice(stream, n, q) == IF Bit(stream, n) = 0 THEN q[1] ELSE q[Len(q)]
coin(stream, n) == Bit(stream, n) = 1

\* document_name.split('_')[0].strip(), without its first dotted token
SchemeName(doc) ==
    LET head == Strip(Split(doc, "_")[1])
    IN  IF Contains(head, ".") THEN Strip(Join(Tail(Split(head, ".")), <<" ">>)) ELSE head

\* 437-444
SchemeType(txt, doc) ==
    IF HasSub(doc, s_RCM) \/ HasSub(txt, s_RCM) THEN s_RCM
    ELSE IF HasSub(doc, s_Upgrade_Program) \/ HasSub(txt, s_Upgrade) THEN s_Upgrade_Program
    ELSE IF HasSub(doc, s_Bundle) \/ HasSub(txt, s_Bundle) THEN s_Bundle_Offer
    ELSE s_Special_Support

\* A matched date read as month-day-year.
IsoDate_month_first(d) ==
    LET parts == Split(d, IF Contains(d, "/") THEN "/" ELSE "-")
    IN  IF Len(parts) < 3 THEN Raise("IndexError")
        ELSE Ret((IF Len(parts[3]) = 2 THEN s_20 \o parts[3] ELSE parts[3])
                 \o <<"-">> \o Zfill2(parts[1]) \o <<"-">> \o Zfill2(parts[2]))

\* One matched date as YYYY-MM-DD: split by "/" when it has one, else by
\* "-"; parts[2] raises IndexError when the two separators differ.
IsoDate(d) ==
    LET parts == Split(d, IF Contains(d, "/") THEN "/" ELSE "-")
    IN  IF Len(parts) < 3 THEN Raise("IndexError")
        ELSE Ret((IF Len(parts[3]) = 2 THEN s_20 \o parts[3] ELSE parts[3])
                 \o <<"-">> \o Zfill2(parts[2]) \o <<"-">> \o Zfill2(parts[1]))

\* 450-483: the period from the first two dates; the bare except keeps
\* what was assigned before the exception.
Period(dates) ==
    IF Len(dates) < 2 THEN <<s_2023_01_01, s_2023_12_31>>
    ELSE LET a == IsoDate(dates[1])
             b == IsoDate(dates[2])
         IN  IF a.exc # "none" THEN <<s_2023_01_01, s_2023_12_31>>
             ELSE IF b.exc # "none" THEN <<a.val, s_2023_12_31>>
             ELSE <<a.val, b.val>>

\* 486-498
Region(txt) ==
    IF HasSub(txt, s_North) /\ HasSub(txt, s_East) THEN s_North_and_East
    ELSE IF HasSub(txt, s_South) /\ HasSub(txt, s_West) THEN s_South_and_West
    ELSE IF HasSub(txt, s_North) THEN s_North
    ELSE IF HasSub(txt, s_South) THEN s_South
    ELSE IF HasSub(txt, s_East) THEN s_East
    ELSE IF HasSub(txt, s_West) THEN s_West
    ELSE s_All_India

\* 501-507
DealerType(txt) ==
    IF HasSub(txt, s_MBO) THEN s_MBO
    ELSE IF HasSub(txt, s_GT) THEN s_GT
    ELSE IF HasSub(txt, s_SEZ) /\ HasSub(txt, s_Blue_Wave) THEN s_SEZ_and_Blue_Wave
    ELSE s_All_Dealers

\* The elements of q, each once, in the order of their first occurrence.
RECURSIVE Dedup(_)
Dedup(q) ==
    IF q = <<>> THEN <<>>
    ELSE LET r == Dedup(SubSeq(q, 1, Len(q) - 1))
         IN  IF \E i \in 1..Len(r) : r[i] = q[Len(q)] THEN r ELSE Append(r, q[Len(q)])

\* The k-th arrangement of q.
RECURSIVE Permute(_, _)
Permute(q, k) ==
    IF q = <<>> THEN <<>>
    ELSE LET j == (k % Len(q)) + 1
         IN  <<q[j]>> \o Permute(SubSeq(q, 1, j - 1) \o SubSeq(q, j + 1, Len(q)), k \div Len(q))

\* found_models as a list: a model matched twice is kept twice.
FoundModels_repeated(found) == found["model"] \o found["galaxy"] \o found["tab"]

\* 519-522: found_models is a set; its elements in first-match order.
FoundModels(found) ==
    The({ Dedup(q) : q \in {found["model"] \o found["galaxy"] \o found["tab"]} })

\* 535-538
FreeItems(found) == found["free"] \o found["complimentary"] \o found["included"]

\* default_free_items
HasDefaultFreeItem(scheme_type) == scheme_type \in {s_Bundle_Offer, s_Upgrade_Program}
DefaultFreeItem(scheme_type) ==
    IF scheme_type = s_Bundle_Offer THEN s_Galaxy_Buds2_Pro ELSE s_Galaxy_Watch4

\* What the scans of text and document_name find (433-538).
Scanned(txt, doc) ==
    The({ [ scheme_name |-> SchemeName(doc),
            scheme_type |-> SchemeType(txt, doc),
            period |-> The({ Period(dates) : dates \in {found["date"]} }),
            region |-> Region(txt),
            dealer_type |-> DealerType(txt),
            found_models |-> FoundModels(found),
            amounts |-> found["amount"],
            free_items |-> FreeItems(found),
            s21_fe |-> HasSub(txt, s_S21_FE) ] : found \in {Found(txt)} })

\* 547-574: the product of the i-th model of the iteration (i from 1) after
\* n draws of the random source; draws is the number of draws after it.
ModelProduct(sc, model, i, n, stream) ==
    LET listed == i <= Len(sc.free_items)
        tossed == ~listed /\ HasDefaultFreeItem(sc.scheme_type)
        m == IF tossed THEN n + 1 ELSE n
        free_item == IF listed THEN PyStr(Strip(sc.free_items[i]))
                     ELSE IF tossed /\ coin(stream, m) THEN PyStr(DefaultFreeItem(sc.scheme_type))
                     ELSE PyNone
        priced == i <= Len(sc.amounts)
    IN  The({
        [ draws |-> IF priced THEN m + 4 ELSE m + 6,
          product |-> PyDict(<<
            Item(k_product_name, PyStr(model)),
            Item(k_product_code, PyStr(s_CODE \o Remove(model, " ") \o <<"-">>
                                       \o int_str(PyInt(randint(stream, m + 1, 1000, 9999), 0)))),
            Item(k_product_category, PyStr(IF HasSub(model, s_Tab) THEN s_Tablet ELSE s_Mobile)),
            Item(k_product_subcategory,
                 PyStr(IF IsAlpha(model[1]) THEN <<model[1]>> \o s__Series ELSE s_Other)),
            Item(k_ram, PyStr(int_str(PyInt(choice(stream, m + 2, <<4, 6, 8, 12>>), 0)) \o s_GB)),
            Item(k_storage, PyStr(int_str(PyInt(choice(stream, m + 3, <<64, 128, 256, 512>>), 0)) \o s_GB)),
            Item(k_connectivity, PyStr(choice(stream, m + 4, <<s_4G, s_5G, s_4G_5G>>))),
            Item(k_support_type, PyStr(sc.scheme_type)),
            Item(k_payout_type, PyStr(s_Fixed)),
            Item(k_payout_amount,
                 IF priced THEN amount ELSE PyInt(randint(stream, m + 5, 500, 5000), 0)),
            Item(k_payout_unit, PyStr(s_INR)),
            Item(k_dealer_contribution, PyInt(0, 0)),
            Item(k_total_payout,
                 IF priced THEN amount ELSE PyInt(randint(stream, m + 6, 500, 5000), 0)),
            Item(k_is_bundle_offer, PyBool(sc.scheme_type = s_Bundle_Offer)),
            Item(k_bundle_price, PyNone),
            Item(k_is_upgrade_offer, PyBool(sc.scheme_type = s_Upgrade_Program)),
            Item(k_free_item_description, free_item) >>) ] :
        amount \in {IF priced THEN py_float(PyStr(Remove(sc.amounts[i], ","))).val ELSE PyNone} })

RECURSIVE ModelProducts(_, _, _, _, _)
ModelProducts(sc, models, i, n, stream) ==
    IF i > Len(models) THEN <<>>
    ELSE The({ <<p.product>> \o ModelProducts(sc, models, i + 1, p.draws, stream) :
               p \in {ModelProduct(sc, models[i], i, n, stream)} })

\* 577-605: the product added when no model was found.
DefaultProduct(sc, stream) ==
    LET default_model == IF sc.s21_fe THEN s_Galaxy_S21_FE ELSE s_Galaxy_S23
        tossed == sc.free_items = <<>> /\ HasDefaultFreeItem(sc.scheme_type)
        m == IF tossed THEN 1 ELSE 0
        free_item == IF sc.free_items # <<>> THEN PyStr(Strip(sc.free_items[1]))
                     ELSE IF tossed /\ coin(stream, 1) THEN PyStr(DefaultFreeItem(sc.scheme_type))
                     ELSE PyNone
    IN  PyDict(<<
            Item(k_product_name, PyStr(default_model)),
            Item(k_product_code, PyStr(s_CODE \o Remove(default_model, " ") \o <<"-">>
                                       \o int_str(PyInt(randint(stream, m + 1, 1000, 9999), 0)))),
            Item(k_product_category, PyStr(s_Mobile)),
            Item(k_product_subcategory, PyStr(s_S_Series)),
            Item(k_ram, PyStr(s_8GB)),
            Item(k_storage, PyStr(s_128GB)),
            Item(k_connectivity, PyStr(s_5G)),
            Item(k_support_type, PyStr(sc.scheme_type)),
            Item(k_payout_type, PyStr(s_Fixed)),
            Item(k_payout_amount, PyFloat("fin", FALSE, 2, 3)),
            Item(k_payout_unit, PyStr(s_INR)),
            Item(k_dealer_contribution, PyInt(0, 0)),
            Item(k_total_payout, PyFloat("fin", FALSE, 2, 3)),
            Item(k_is_bundle_offer, PyBool(sc.scheme_type = s_Bundle_Offer)),
            Item(k_bundle_price, PyNone),
            Item(k_is_upgrade_offer, PyBool(sc.scheme_type = s_Upgrade_Program)),
            Item(k_free_item_description, free_item) >>)

\* The rules without the period rule.
SchemeRules_eligibility_only(sc) ==
    PyList(<<
        PyDict(<< Item(k_rule_type, PyStr(s_Eligibility)),
                  Item(k_rule_description, PyStr(s_Applicable_for_ \o sc.dealer_type)),
                  Item(k_rule_value, PyStr(sc.dealer_type)) >>) >>)

\* The two rules, the period rule first.
SchemeRules_period_first(sc) ==
    PyList(<<
        PyDict(<< Item(k_rule_type, PyStr(s_Period)),
                  Item(k_rule_description,
                       PyStr(s_Valid_from_ \o sc.period[1] \o s__to_ \o sc.period[2])),
                  Item(k_rule_value, PyStr(sc.period[1] \o s__to_ \o sc.period[2])) >>),
        PyDict(<< Item(k_rule_type, PyStr(s_Eligibility)),
                  Item(k_rule_description, PyStr(s_Applicable_for_ \o sc.dealer_type)),
                  Item(k_rule_value, PyStr(sc.dealer_type)) >>) >>)

\* 608-619
SchemeRules(sc) ==
    PyList(<<
        PyDict(<< Item(k_rule_type, PyStr(s_Eligibility)),
                  Item(k_rule_description, PyStr(s_Applicable_for_ \o sc.dealer_type)),
                  Item(k_rule_value, PyStr(sc.dealer_type)) >>),
        PyDict(<< Item(k_rule_type, PyStr(s_Period)),
                  Item(k_rule_description,
                       PyStr(s_Valid_from_ \o sc.period[1] \o s__to_ \o sc.period[2])),
                  Item(k_rule_value, PyStr(sc.period[1] \o s__to_ \o sc.period[2])) >>) >>)

\* 547-633: the record built from the scans sc.  rs.order is the order in
\* which the set found_models is iterated, rs.stream the random source.
StructuredData(sc, rs) ==
    The({ PyDict(<<
            Item(k_scheme_name, PyStr(sc.scheme_name)),
            Item(k_scheme_type, PyStr(sc.scheme_type)),
            Item(k_scheme_period_start, PyStr(sc.period[1])),
            Item(k_scheme_period_end, PyStr(sc.period[2])),
            Item(k_applicable_region, PyStr(sc.region)),
            Item(k_dealer_type_eligibility, PyStr(sc.dealer_type)),
            Item(k_products, PyList(IF products = <<>> THEN <<DefaultProduct(sc, rs.stream)>>
                                    ELSE products)),
            Item(k_scheme_rules, SchemeRules(sc)) >>) :
          products \in {The({ ModelProducts(sc, models, 1, 0, rs.stream) :
                              models \in {Permute(sc.found_models, rs.order)} })} })

\* rule_based_extraction(text, document_name) with the random source rs;
\* the scans are evaluated once, as sc.
rule_based_extraction(txt, doc, rs) ==
    Ret(The({ StructuredData(sc, rs) : sc \in {Scanned(txt, doc)} }))

(***************************************************************************)
(* json.loads(s).  The escapes \b and \uXXXX occur in no text that is      *)
(* parsed here and are not decoded.                                        *)
(***************************************************************************)
s_minus_Infinity ==
    <<"-", "I", "n", "f", "i", "n", "i", "t", "y">>

\* A parse: the value and the position after it, or a failure.
JsonFail == [ok |-> FALSE, val |-> PyNone, pos |-> 0]
JsonOk(v, p) == [ok |-> TRUE, val |-> v, pos |-> p]

\* The number of backslashes that s has in a row before position p.
BackslashesBefore(s, p) ==
    CHOOSE k \in 0..(p - 1) :
        /\ \A n \in 1..k : s[p - n] = "\\"
        /\ k = p - 1 \/ s[p - k - 1] # "\\"

\* Position p of s is escaped by a backslash.
Escaped(s, p) == BackslashesBefore(s, p) % 2 = 1

\* The character that backslash c stands for.
Unescape(c) ==
    CASE c = "n" -> "\n"
      [] c = "t" -> "\t"
      [] c = "r" -> "\r"
      [] c = "f" -> "\f"
      [] OTHER -> c

\* The scanner's view of s: the quotes that open or close a string, the
\* brackets, commas and colons outside the strings, and for each of these
\* marks the number of brackets open before it.
JsonScan(s) ==
    The({ The({ [ s |-> s,
                  quotes |-> quotes,
                  marks |-> marks,
                  depth |-> [p \in marks |->
                                Cardinality({x \in marks : x < p /\ s[x] \in {"{", "["}})
                                - Cardinality({x \in marks : x < p /\ s[x] \in {"}", "]"}})] ] :
                marks \in {{p \in 1..Len(s) :
                              /\ s[p] \in {"{", "}", "[", "]", ",", ":"}
                              /\ Cardinality({x \in quotes : x < p}) % 2 = 0}} }) :
          quotes \in {{p \in 1..Len(s) : s[p] = "\"" /\ ~Escaped(s, p)}} })

\* The string between the quotes at positions a and e.  A raw control
\* character or an unknown escape ends the parse.
json_string(s, a, e) ==
    IF \E p \in (a + 1)..(e - 1) :
          \/ s[p] \in {"\n", "\t", "\r", "\f"}
          \/ Escaped(s, p) /\ s[p] \notin {"\"", "\\", "/", "n", "t", "r", "f"}
    THEN JsonFail
    ELSE JsonOk(PyStr(Concat([n \in 1..(e - a - 1) |->
                                 IF Escaped(s, a + n) THEN <<Unescape(s[a + n])>>
                                 ELSE IF s[a + n] = "\\" THEN <<>>
                                 ELSE <<s[a + n]>>])),
                e + 1)

\* (-?(?:0|[1-9]\d*))(\.\d+)?([eE][-+]?\d+)? at position i: an int when it
\* has neither fraction nor exponent, else a float.
json_number(s, i) ==
    LET j == IF s[i] = "-" THEN i + 1 ELSE i
        d == Run(s, j, "digit")
        int_end == IF s[j] = "0" THEN j + 1 ELSE j + d
        fd == Run(s, int_end + 1, "digit")
        frac_end == IF int_end <= Len(s) /\ s[int_end] = "." /\ fd >= 1 THEN int_end + 1 + fd ELSE int_end
        sign == IF frac_end + 1 <= Len(s) /\ s[frac_end + 1] \in {"+", "-"} THEN 1 ELSE 0
        ed == Run(s, frac_end + 1 + sign, "digit")
        exp_end == IF frac_end <= Len(s) /\ s[frac_end] \in {"e", "E"} /\ ed >= 1
                   THEN frac_end + 1 + sign + ed ELSE frac_end
        token == PyStr(SubSeq(s, i, exp_end - 1))
    IN  IF d = 0 THEN JsonFail
        ELSE JsonOk(IF exp_end = int_end THEN py_int(token).val ELSE py_float(token).val, exp_end)

\* The token t, which is neither a string, an object nor an array.
json_constant(t) ==
    IF t = s_null THEN JsonOk(PyNone, 0)
    ELSE IF t = s_true THEN JsonOk(PyBool(TRUE), 0)
    ELSE IF t = s_false THEN JsonOk(PyBool(FALSE), 0)
    ELSE IF t = s_NaN THEN JsonOk(PyFloat("nan", FALSE, 0, 0), 0)
    ELSE IF t = s_Infinity THEN JsonOk(PyFloat("inf", FALSE, 0, 0), 0)
    ELSE IF t = s_minus_Infinity THEN JsonOk(PyFloat("inf", TRUE, 0, 0), 0)
    ELSE The({ IF n.ok /\ n.pos = Len(t) + 1 THEN n ELSE JsonFail : n \in {json_number(t, 1)} })

\* The number of white spaces that s has in a row from lo on and before hi,
\* within lo..hi.
SpaceFrom(s, lo, hi) ==
    CHOOSE k \in 0..(hi - lo + 1) :
        /\ \A n \in 0..(k - 1) : InClass("json_space", s[lo + n])
        /\ k = hi - lo + 1 \/ ~InClass("json_space", s[lo + k])
SpaceUpTo(s, lo, hi) ==
    CHOOSE k \in 0..(hi - lo + 1) :
        /\ \A n \in 0..(k - 1) : InClass("json_space", s[hi - n])
        /\ k = hi - lo + 1 \/ ~InClass("json_space", s[hi - k])

\* The elements of the set S of numbers in rising order.
Sorted(S) == [n \in 1..Cardinality(S) |-> CHOOSE x \in S : Cardinality({y \in S : y < x}) = n - 1]

\* The bracket at a closes at b.
Closes(js, a, b) ==
    /\ b \in js.marks /\ b > a
    /\ js.depth[b] = js.depth[a] + 1
    /\ \A x \in js.marks : a < x /\ x < b /\ js.s[x] \in {"}", "]"} => js.depth[x] # js.depth[a] + 1

\* The parts that the commas of the bracket from a to b divide a+1..b-1
\* into, as pairs of first and last position.
Parts(js, a, b) ==
    The({ [n \in 1..(Len(cuts) - 1) |-> <<cuts[n] + 1, cuts[n + 1] - 1>>] :
          cuts \in {<<a>> \o Sorted({c \in js.marks :
                                       /\ a < c /\ c < b /\ js.s[c] = ","
                                       /\ js.depth[c] = js.depth[a] + 1}) \o <<b>>} })

\* The dict of the members ms, each a key k and a value v: a repeated key
\* keeps its first place and takes its last value.
DictOf(ms) ==
    The({ PyDict([i \in 1..Len(firsts) |->
                     Item(ms[firsts[i]].k,
                          ms[CHOOSE m \in 1..Len(ms) :
                                /\ ms[m].k = ms[firsts[i]].k
                                /\ \A m2 \in (m + 1)..Len(ms) : ms[m2].k # ms[m].k].v)]) :
          firsts \in {SelectSeq([n \in 1..Len(ms) |-> n],
                                LAMBDA n : \A m \in 1..(n - 1) : ms[m].k # ms[n].k)} })

RECURSIVE json_value(_, _, _)
RECURSIVE json_member(_, _, _)
RECURSIVE json_token(_, _, _)

\* The value that lo..hi holds between white space.
json_value(js, lo, hi) ==
    The({ IF a > b THEN JsonFail ELSE json_token(js, a, b) :
          a \in {lo + SpaceFrom(js.s, lo, hi)}, b \in {hi - SpaceUpTo(js.s, lo, hi)} })

\* The member that lo..hi holds: a key, a colon and a value.
json_member(js, lo, hi) ==
    The({ IF a > hi \/ a \notin js.quotes \/ \A x \in js.quotes : x <= a \/ x > hi
          THEN [ok |-> FALSE, k |-> <<>>, v |-> PyNone]
          ELSE The({
              The({ IF ~key.ok \/ c > hi \/ js.s[c] # ":" THEN [ok |-> FALSE, k |-> <<>>, v |-> PyNone]
                    ELSE The({ [ok |-> v.ok, k |-> key.val.s, v |-> v.val] :
                               v \in {json_value(js, c + 1, hi)} }) :
                    key \in {json_string(js.s, a, e)},
                    c \in {e + 1 + SpaceFrom(js.s, e + 1, hi)} }) :
              e \in {SetMin({x \in js.quotes : x > a /\ x <= hi})} }) :
          a \in {lo + SpaceFrom(js.s, lo, hi)} })

\* The value that is a..b.
json_token(js, a, b) ==
    IF js.s[a] = "\""
    THEN (IF a \in js.quotes /\ b \in js.quotes /\ a < b /\ \A x \in js.quotes : x <= a \/ x >= b
          THEN json_string(js.s, a, b) ELSE JsonFail)
    ELSE IF js.s[a] = "{"
    THEN (IF js.s[b] # "}" \/ ~Closes(js, a, b) THEN JsonFail
          ELSE IF SpaceFrom(js.s, a + 1, b - 1) = b - a - 1 THEN JsonOk(PyDict(<<>>), b + 1)
          ELSE The({ IF \E n \in 1..Len(ms) : ~ms[n].ok THEN JsonFail ELSE JsonOk(DictOf(ms), b + 1) :
                     ms \in {The({ [n \in 1..Len(parts) |-> json_member(js, parts[n][1], parts[n][2])] :
                                   parts \in {Parts(js, a, b)} })} }))
    ELSE IF js.s[a] = "["
    THEN (IF js.s[b] # "]" \/ ~Closes(js, a, b) THEN JsonFail
          ELSE IF SpaceFrom(js.s, a + 1, b - 1) = b - a - 1 THEN JsonOk(PyList(<<>>), b + 1)
          ELSE The({ IF \E n \in 1..Len(vs) : ~vs[n].ok THEN JsonFail
                     ELSE JsonOk(PyList([n \in 1..Len(vs) |-> vs[n].val]), b + 1) :
                     vs \in {The({ [n \in 1..Len(parts) |-> json_value(js, parts[n][1], parts[n][2])] :
                                   parts \in {Parts(js, a, b)} })} }))
    ELSE json_constant(SubSeq(js.s, a, b))

json_loads(s) ==
    The({ IF r.ok THEN Ret(r.val) ELSE Raise("JSONDecodeError") :
          r \in {The({ json_value(js, 1, Len(s)) : js \in {JsonScan(s)} })} })

\* v[key] for the key a string or 0
Subscript(v, key) ==
    IF v.t = "dict"
    THEN (IF key.t = "str" /\ \E n \in 1..Len(v.items) : v.items[n].k = key.s
          THEN Ret(dict_get(v, key.s, PyNone)) ELSE Raise("KeyError"))
    ELSE IF v.t = "list"
    THEN (IF key.t # "int" THEN Raise("TypeError")
          ELSE IF v.items = <<>> THEN Raise("IndexError") ELSE Ret(v.items[key.m + 1]))
    ELSE IF v.t = "str"
    THEN (IF key.t # "int" THEN Raise("TypeError")
          ELSE IF v.s = <<>> THEN Raise("IndexError") ELSE Ret(PyStr(<<v.s[key.m + 1]>>)))
    ELSE Raise("TypeError")

(***************************************************************************)
(* extract_structured_data_from_text                                       *)
(***************************************************************************)
\* The first position from i on where s has sub, or 0.
Find(s, sub, i) ==
    IF \E p \in i..Len(s) : At(s, p, sub)
    THEN CHOOSE p \in i..Len(s) : At(s, p, sub) /\ \A q \in i..(p - 1) : ~At(s, q, sub)
    ELSE 0

\* The number of white spaces that s has in a row before position p, from
\* position g on.
SpaceBefore(s, g, p) ==
    IF \E q \in g..(p - 1) : ~IsSpace(s[q])
    THEN p - 1 - (CHOOSE q \in g..(p - 1) : ~IsSpace(s[q]) /\ \A n \in (q + 1)..(p - 1) : IsSpace(s[n]))
    ELSE p - g

\* re.search of the fence, json, \s*(.*?)\s* and the fence, with re.DOTALL:
\* the group of the first match, or s when there is no match (410-412).
Fenced(s) ==
    LET i == Find(s, s_fence_json, 1)
        g == i + Len(s_fence_json) + Run(s, i + Len(s_fence_json), "space")
        f == Find(s, s_fence, g)
    IN  IF i = 0 \/ f = 0 THEN s ELSE SubSeq(s, g, f - 1 - SpaceBefore(s, g, f))

\* response_body['content'][0]['text'].strip() for the response cl gives
\* (400-407).
ResultText(cl) ==
    IF cl.raises THEN Raise("ClientError")
    ELSE The({
        LET content == Subscript(response_body.val, PyStr(k_content))
            first == Subscript(content.val, PyInt(0, 0))
            t == Subscript(first.val, PyStr(k_text))
        IN  IF response_body.exc # "none" THEN response_body
            ELSE IF content.exc # "none" THEN content
            ELSE IF first.exc # "none" THEN first
            ELSE IF t.exc # "none" THEN t
            ELSE IF t.val.t # "str" THEN Raise("AttributeError")
            ELSE Ret(PyStr(Strip(t.val.s))) :
        response_body \in {json_loads(cl.body)} })

\* The inner try (399-416): the parsed reply, or its exception.
ModelReply(cl) ==
    The({ IF rt.exc # "none" THEN rt ELSE The({ json_loads(fenced) : fenced \in {Fenced(rt.val.s)} }) :
          rt \in {ResultText(cl)} })

\* if bedrock_client and inference_profile_arn
Configured(cl) == cl.bedrock_client # "None" /\ Truthy(cl.inference_profile_arn)

\* The adapter handing the extractor an empty document name.
extract_structured_data_from_text_unnamed(txt, doc, cl, rs) ==
    The({ IF Configured(cl) /\ reply.exc = "none" THEN reply ELSE rule_based_extraction(txt, <<>>, rs) :
          reply \in {IF Configured(cl) THEN ModelReply(cl) ELSE Raise("NotCalled")} })

\* extract_structured_data_from_text(text, document_name, bedrock_client,
\* inference_profile_arn) with the random source rs: the model's reply when
\* the inner try ends without exception, else the extractor's result, and
\* None when the extractor raises.
extract_structured_data_from_text(txt, doc, cl, rs) ==
    The({ IF Configured(cl) /\ reply.exc = "none" THEN reply
          ELSE The({ IF fallback.exc = "none" THEN fallback ELSE Ret(PyNone) :
                     fallback \in {rule_based_extraction(txt, doc, rs)} }) :
          reply \in {IF Configured(cl) THEN ModelReply(cl) ELSE Raise("NotCalled")} })

(***************************************************************************)
(* SpecExtract: one call of extract_structured_data_from_text and one of   *)
(* rule_based_extraction on the same text, document name and random        *)
(* source, for every text, document name and model client below.           *)
(***************************************************************************)
t_s23 ==
    <<"G", "a", "l", "a", "x", "y", " ", "S", "2", "3", " ", "R", "s", ".", " ", "5", ",", "0", "0", "0", " ", "A", "l", "l", " ", "I", "n", "d", "i", "a", " ", "0", "1", "/", "0", "8", "/", "2", "0", "2", "3", " ", "3", "1", "/", "0", "8", "/", "2", "0", "2", "3">>
t_rcm ==
    <<"R", "C", "M", " ", "f", "o", "r", " ", "M", "B", "O", " ", "N", "o", "r", "t", "h", " ", "E", "a", "s", "t", " ", "R", "s", " ", "1", ",", "2", "3", "4", ".", "5", " ", "1", "-", "2", "-", "2", "3", " ", "3", "/", "4", "/", "2", "0", "2", "4">>
t_upgrade ==
    <<"U", "p", "g", "r", "a", "d", "e", " ", "T", "a", "b", " ", "S", "7", " ", "f", "r", "e", "e", " ", "G", "a", "l", "a", "x", "y", " ", "B", "u", "d", "s", "2", " ", "P", "r", "o", ",", " ", "S", "o", "u", "t", "h", " ", "W", "e", "s", "t", " ", "G", "T", " ", "1", "/", "2", "-", "2", "0", "2", "3", " ", "3", "/", "4", "/", "2", "4">>
t_bundle ==
    <<"B", "u", "n", "d", "l", "e", " ", "S", "2", "1", " ", "F", "E", " ", "c", "o", "m", "p", "l", "i", "m", "e", "n", "t", "a", "r", "y", " ", " ", "W", "a", "t", "c", "h", " ", "s", "t", "r", "a", "p", ".", " ", "1", "2", "/", "1", "2", "/", "2", "0", "2", "3", " ", "1", "-", "2", "/", "2", "3", " ", "S", "E", "Z", " ", "B", "l", "u", "e", " ", "W", "a", "v", "e">>
t_bundle_only ==
    <<"B", "u", "n", "d", "l", "e">>
t_amount ==
    <<"A", "5", "2", "s", " ", "I", "N", "R", " ", "7", "5", "0", " ", "W", "e", "s", "t">>
d_special ==
    <<"0", "8", ".", "S", "p", "e", "c", "i", "a", "l", "S", "u", "p", "p", "o", "r", "t", "_", "S", "2", "3", ".", "p", "d", "f">>
d_rcm ==
    <<"R", "C", "M", "_", "x", ".", "p", "d", "f">>
d_upgrade ==
    <<"U", "p", "g", "r", "a", "d", "e", " ", "P", "r", "o", "g", "r", "a", "m", ".", "p", "d", "f">>
d_bundle ==
    <<"B", "u", "n", "d", "l", "e", ".", "p", "d", "f">>
s_arn ==
    <<"a", "r", "n">>
b_html ==
    <<"<", "h", "t", "m", "l", ">">>
s_prose ==
    <<"H", "e", "r", "e", " ", "i", "s", " ", "t", "h", "e", " ", "d", "a", "t", "a">>
s_not_json ==
    <<"n", "o", "t", " ", "j", "s", "o", "n">>
k_message ==
    <<"m", "e", "s", "s", "a", "g", "e">>

Texts == {<<>>, t_s23, t_rcm, t_upgrade, t_bundle, t_bundle_only, t_amount}
DocumentNames == {<<>>, d_special, d_rcm, d_upgrade, d_bundle}

RECURSIVE Factorial(_)
Factorial(n) == IF n = 0 THEN 1 ELSE n * Factorial(n - 1)

\* The orders in which the set of the models found in txt can be iterated.
Orders(txt) == 0..(Factorial(Len(FoundModels(Found(txt)))) - 1)

\* A complete scheme record.
GoodRecord ==
    PyDict(SchemeHead \o << Item(k_products, PyList(<<p_catalogued>>)),
                           Item(k_scheme_rules, PyList(<<r_eligibility>>)) >>)

\* The body of a response whose content[0].text is t.
Body(t) ==
    json_dumps(PyDict(<< Item(k_content, PyList(<< PyDict(<< Item(k_text, PyStr(t)) >>) >>)) >>))

\* A client whose invoke_model returns body.
Replying(body) ==
    [bedrock_client |-> "stub", inference_profile_arn |-> PyStr(s_arn), raises |-> FALSE, body |-> body]

NoClient == [Replying(<<>>) EXCEPT !.bedrock_client = "None"]
NoProfile == [Replying(<<>>) EXCEPT !.inference_profile_arn = PyNone]
Raising == [Replying(<<>>) EXCEPT !.raises = TRUE]

\* A client whose reply is a complete record between two fences, the
\* opening one with the tag json or with no tag.
FencedRecord ==
    Replying(Body(s_fence_json \o <<"\n">> \o json_dumps(GoodRecord) \o <<"\n">> \o s_fence))
BareFencedRecord ==
    Replying(Body(s_fence \o <<"\n">> \o json_dumps(GoodRecord) \o <<"\n">> \o s_fence))

\* The clients whose call fails: not configured, the call raises, the body
\* is no JSON, the body lacks content, content is empty, text is no string,
\* the text is no JSON, the fenced text is no JSON, the fence has no tag.
FailingClients ==
    { NoClient, NoProfile, Raising,
      Replying(b_html),
      Replying(json_dumps(PyDict(<< Item(k_message, PyStr(<<"x">>)) >>))),
      Replying(json_dumps(PyDict(<< Item(k_content, PyList(<<>>)) >>))),
      Replying(json_dumps(PyDict(<< Item(k_content, PyList(<< PyDict(<< Item(k_text, PyNone) >>) >>)) >>))),
      Replying(Body(s_prose)),
      Replying(Body(s_fence_json \o <<"\n">> \o s_not_json \o <<"\n">> \o s_fence)),
      BareFencedRecord }

\* The clients whose reply parses: a complete record, bare or fenced, and
\* the JSON texts null, [] and {"scheme_name": "S"}.
ParsingClients ==
    { Replying(Body(json_dumps(GoodRecord))),
      Replying(Body(s_fence_json \o <<"\n">> \o json_dumps(GoodRecord) \o <<"\n">> \o s_fence)),
      Replying(Body(s_null)),
      Replying(Body(<<"[", "]">>)),
      Replying(Body(json_dumps(PyDict(<< Item(k_scheme_name, PyStr(<<"S">>)) >>)))) }

Clients == FailingClients \cup ParsingClients

InitExtract ==
    /\ text \in Texts
    /\ document_name \in DocumentNames
    /\ client \in Clients
    /\ rnd \in {[stream |-> st, order |-> o] : st \in RandStreams, o \in Orders(text)}
    /\ ex_result = Pending /\ rb_result = Pending
    /\ IdleNormalize
    /\ IdleStore
    /\ IdleIngest
    /\ IdleApp

extract_call ==
    /\ ex_result = Pending
    /\ ex_result' = extract_structured_data_from_text(text, document_name, client, rnd)
    /\ UNCHANGED <<text, document_name, client, rnd, rb_result, nf_vars, db_vars, pg, app>>

rule_based_call ==
    /\ rb_result = Pending
    /\ rb_result' = rule_based_extraction(text, document_name, rnd)
    /\ UNCHANGED <<text, document_name, client, rnd, ex_result, nf_vars, db_vars, pg, app>>

NextExtract == extract_call \/ rule_based_call

SpecExtract == InitExtract /\ [][NextExtract]_vars

(***************************************************************************)
(* Claims on the extractors, checked under SpecExtract.                    *)
(***************************************************************************)
Extracted == ex_result # Pending
RuleBased == rb_result # Pending

\* A client whose reply holds a fenced text that is no JSON.
FencedNoJson == Replying(Body(s_fence_json \o <<"\n">> \o s_not_json \o <<"\n">> \o s_fence))

\* A client whose reply is the JSON text null.
ReplyingNull == Replying(Body(s_null))

\* C4: when no client or no inference profile is configured, or the model
\* call fails (the call raises, the body is no JSON, a response field is
\* missing, the embedded JSON does not parse),
\* extract_structured_data_from_text returns exactly what
\* rule_based_extraction returns for the same text, document name and
\* random draws.
C4_FallbackIsRuleBased ==
    (Extracted /\ RuleBased /\ client \in FailingClients) => ex_result = rb_result

C4_Witness ==
    /\ Extracted /\ RuleBased
    /\ client = FencedNoJson /\ text = t_s23 /\ document_name = d_special
    /\ ex_result = rb_result /\ ex_result.exc = "none"

\* The keys of a scheme record.
SchemeKeys ==
    { k_scheme_name, k_scheme_type, k_scheme_period_start, k_scheme_period_end,
      k_applicable_region, k_dealer_type_eligibility, k_products, k_scheme_rules }

IsSchemeRecord(v) ==
    /\ v.t = "dict"
    /\ \A key \in SchemeKeys : \E n \in 1..Len(v.items) : v.items[n].k = key

\* C5: for every input and every behaviour of the model client,
\* extract_structured_data_from_text returns a scheme record (a mapping
\* with the scheme keys), never an exception and never None.
C5_AlwaysRecord ==
    Extracted => ex_result.exc = "none" /\ IsSchemeRecord(ex_result.val)

\* The products and the rules of a returned record.
ProductsOf(r) == dict_get(r.val, k_products, PyNone)
RulesOf(r) == dict_get(r.val, k_scheme_rules, PyNone)

\* The record has one product, the default one, two rules and the default
\* period, region and dealer eligibility.
EmptyTextRecord(r) ==
    /\ r.exc = "none" /\ IsSchemeRecord(r.val)
    /\ ProductsOf(r).t = "list" /\ Len(ProductsOf(r).items) = 1
    /\ dict_get(ProductsOf(r).items[1], k_product_name, PyNone) = PyStr(s_Galaxy_S23)
    /\ dict_get(ProductsOf(r).items[1], k_payout_amount, PyNone) = PyFloat("fin", FALSE, 2, 3)
    /\ RulesOf(r).t = "list" /\ Len(RulesOf(r).items) = 2
    /\ dict_get(r.val, k_scheme_period_start, PyNone) = PyStr(s_2023_01_01)
    /\ dict_get(r.val, k_scheme_period_end, PyNone) = PyStr(s_2023_12_31)
    /\ dict_get(r.val, k_applicable_region, PyNone) = PyStr(s_All_India)
    /\ dict_get(r.val, k_dealer_type_eligibility, PyNone) = PyStr(s_All_Dealers)

HasTypeSpecialSupport(r) == dict_get(r.val, k_scheme_type, PyNone) = PyStr(s_Special_Support)

\* The document name has none of the keywords that set the scheme type.
NoTypeKeyword(doc) ==
    ~HasSub(doc, s_RCM) /\ ~HasSub(doc, s_Upgrade_Program) /\ ~HasSub(doc, s_Bundle)

t_dates ==
    <<"V", "a", "l", "i", "d", " ", "0", "1", "/", "0", "2", "/", "2", "3", " ", "t", "o", " ", "1", "5", "-", "0", "6", "-", "2", "0", "2", "4">>
t_mixed_first ==
    <<"0", "1", "/", "0", "2", "-", "2", "3", " ", "1", "5", "-", "0", "6", "-", "2", "0", "2", "4">>
t_mixed_second ==
    <<"0", "1", "/", "0", "2", "/", "2", "3", " ", "1", "5", "-", "0", "6", "/", "2", "0", "2", "4">>
t_one_date ==
    <<"f", "r", "o", "m", " ", "0", "1", "/", "0", "2", "/", "2", "3">>
t_twice ==
    <<"A", "5", "2", "s", " ", "a", "n", "d", " ", "A", "5", "2", "s", " ", "R", "s", " ", "1", "0", "0">>
d_upgrade_only ==
    <<"U", "p", "g", "r", "a", "d", "e", "_", "x", ".", "p", "d", "f">>

RuleTexts == Texts \cup {t_dates, t_mixed_first, t_mixed_second, t_one_date, t_twice}
RuleDocumentNames == DocumentNames \cup {d_upgrade_only}

InitRuleBased ==
    /\ text \in RuleTexts
    /\ document_name \in RuleDocumentNames
    /\ client = NoClient
    /\ rnd \in {[stream |-> st, order |-> o] : st \in RandStreams, o \in Orders(text)}
    /\ ex_result = Pending /\ rb_result = Pending
    /\ IdleNormalize
    /\ IdleStore
    /\ IdleIngest
    /\ IdleApp

NextRuleBased == rule_based_call

SpecRuleBased == InitRuleBased /\ [][NextRuleBased]_vars

(***************************************************************************)
(* Claims on rule_based_extraction, checked under SpecRuleBased.           *)
(***************************************************************************)
\* The date tokens of the text, and the returned period.
DateTokens == FindAll("date", text, 1)
PeriodStart == dict_get(rb_result.val, k_scheme_period_start, PyNone)
PeriodEnd == dict_get(rb_result.val, k_scheme_period_end, PyNone)

Pad2(s) == IF Len(s) < 2 THEN <<"0">> \o s ELSE s

\* The token, three runs of digits with a separator after the first and
\* the second, read as day, month and year and written as YYYY-MM-DD.
DayMonthYear(tok) ==
    LET a == Run(tok, 1, "digit")
        b == Run(tok, a + 2, "digit")
        year == SubSeq(tok, a + b + 3, Len(tok))
    IN  (IF Len(year) = 2 THEN <<"2", "0">> \o year ELSE year)
        \o <<"-">> \o Pad2(SubSeq(tok, a + 2, a + b + 1)) \o <<"-">> \o Pad2(SubSeq(tok, 1, a))

\* The token has the same separator twice.
OneSeparator(tok) == ~(Contains(tok, "/") /\ Contains(tok, "-"))

s_2023_02_01 == <<"2", "0", "2", "3", "-", "0", "2", "-", "0", "1">>
s_2024_06_15 == <<"2", "0", "2", "4", "-", "0", "6", "-", "1", "5">>

\* C11 as stated: when the text has at least two date tokens of the form
\* D{1,2}[/-]D{1,2}[/-]D{2,4}, period_start is the first and period_end the
\* second, each read as day-month-year and written as YYYY-MM-DD.
C11_PeriodFromDates_AnyToken ==
    (RuleBased /\ Len(DateTokens) >= 2) =>
        /\ PeriodStart = PyStr(DayMonthYear(DateTokens[1]))
        /\ PeriodEnd = PyStr(DayMonthYear(DateTokens[2]))

\* C11: when the text has at least two date tokens and each of the first
\* two has the same separator twice, period_start is the first and
\* period_end the second, each read as day-month-year and written as
\* YYYY-MM-DD, day and month padded to two digits and a 2-digit year
\* prefixed with "20".
C11_PeriodFromDates ==
    (RuleBased /\ Len(DateTokens) >= 2
       /\ OneSeparator(DateTokens[1]) /\ OneSeparator(DateTokens[2])) =>
        /\ PeriodStart = PyStr(DayMonthYear(DateTokens[1]))
        /\ PeriodEnd = PyStr(DayMonthYear(DateTokens[2]))

C11_Witness ==
    /\ RuleBased /\ text = t_dates
    /\ PeriodStart = PyStr(s_2023_02_01) /\ PeriodEnd = PyStr(s_2024_06_15)

\* C12: when one of the first two date tokens cannot be rewritten (it has
\* two different separators), period_start and period_end both keep their
\* defaults 2023-01-01 and 2023-12-31.
C12_BothDefaults ==
    (RuleBased /\ Len(DateTokens) >= 2
       /\ ~(OneSeparator(DateTokens[1]) /\ OneSeparator(DateTokens[2]))) =>
        /\ PeriodStart = PyStr(s_2023_01_01)
        /\ PeriodEnd = PyStr(s_2023_12_31)

s_2023_08_01 == <<"2", "0", "2", "3", "-", "0", "8", "-", "0", "1">>
s_2023_08_31 == <<"2", "0", "2", "3", "-", "0", "8", "-", "3", "1">>

\* The matches of the three model patterns in the text, and the returned
\* products and their names.
ModelTokens == FindAll("model", text, 1) \o FindAll("galaxy", text, 1) \o FindAll("tab", text, 1)
Products == ProductsOf(rb_result).items
ProductName(i) == dict_get(Products[i], k_product_name, PyNone)

\* C13: for the document 08.SpecialSupport_S23.pdf with the text "Galaxy
\* S23 Rs. 5,000 All India 01/08/2023 31/08/2023" the result has type
\* "Special Support", region "All India", the period 2023-08-01 to
\* 2023-08-31 and exactly one product, named by a match of the model
\* pattern, with payout_amount 5000.0.
C13_SpecialSupportS23 ==
    (RuleBased /\ text = t_s23 /\ document_name = d_special) =>
        /\ HasTypeSpecialSupport(rb_result)
        /\ dict_get(rb_result.val, k_applicable_region, PyNone) = PyStr(s_All_India)
        /\ PeriodStart = PyStr(s_2023_08_01) /\ PeriodEnd = PyStr(s_2023_08_31)
        /\ Len(Products) = 1
        /\ \E n \in 1..Len(ModelTokens) : ProductName(1) = PyStr(ModelTokens[n])
        /\ dict_get(Products[1], k_payout_amount, PyNone) = PyFloat("fin", FALSE, 5, 3)

\* The type the keywords select when each is looked for in the document
\* name and in the text.
TypeByKeyword ==
    IF HasSub(document_name, s_RCM) \/ HasSub(text, s_RCM) THEN s_RCM
    ELSE IF HasSub(document_name, s_Upgrade) \/ HasSub(text, s_Upgrade) THEN s_Upgrade_Program
    ELSE IF HasSub(document_name, s_Bundle) \/ HasSub(text, s_Bundle) THEN s_Bundle_Offer
    ELSE s_Special_Support

\* C14: the scheme type is "RCM" when "RCM" is in the document name or the
\* text, else "Upgrade Program" when "Upgrade" is in either, else "Bundle
\* Offer" when "Bundle" is in either, else "Special Support".
C14_TypeByKeyword ==
    RuleBased => dict_get(rb_result.val, k_scheme_type, PyNone) = PyStr(TypeByKeyword)

\* C15: the result has one product per distinct match of the model
\* patterns, no two products with the same name, and exactly one product,
\* the default one, when the text has no match; the list is never empty.
C15_OneProductPerModel ==
    RuleBased =>
        /\ ProductsOf(rb_result).t = "list" /\ Len(Products) >= 1
        /\ \A i, j \in 1..Len(Products) : ProductName(i) = ProductName(j) => i = j
        /\ ModelTokens # <<>> =>
               {ProductName(i) : i \in 1..Len(Products)}
                   = {PyStr(ModelTokens[n]) : n \in 1..Len(ModelTokens)}
        /\ ModelTokens = <<>> =>
               /\ Len(Products) = 1
               /\ ProductName(1) = PyStr(s_Galaxy_S23)
               /\ dict_get(Products[1], k_payout_amount, PyNone) = PyFloat("fin", FALSE, 2, 3)

C15_Witness ==
    /\ RuleBased /\ text = t_twice
    /\ Len(ModelTokens) = 2 /\ ModelTokens[1] = ModelTokens[2]
    /\ Len(Products) = 1 /\ ProductName(1) = PyStr(ModelTokens[1])

\* C16: the result has exactly two rules, in this order: an "Eligibility"
\* rule whose value is the returned dealer eligibility and a "Period" rule
\* whose value is the returned period_start, " to " and the returned
\* period_end.
C16_TwoRules ==
    RuleBased =>
        /\ RulesOf(rb_result).t = "list" /\ Len(RulesOf(rb_result).items) = 2
        /\ dict_get(RulesOf(rb_result).items[1], k_rule_type, PyNone) = PyStr(s_Eligibility)
        /\ dict_get(RulesOf(rb_result).items[1], k_rule_value, PyNone)
               = dict_get(rb_result.val, k_dealer_type_eligibility, PyNone)
        /\ dict_get(RulesOf(rb_result).items[2], k_rule_type, PyNone) = PyStr(s_Period)
        /\ PeriodStart.t = "str" /\ PeriodEnd.t = "str"
        /\ dict_get(RulesOf(rb_result).items[2], k_rule_value, PyNone)
               = PyStr(PeriodStart.s \o <<" ", "t", "o", " ">> \o PeriodEnd.s)

C16_Witness ==
    /\ RuleBased /\ text = t_rcm
    /\ dict_get(RulesOf(rb_result).items[1], k_rule_value, PyNone) = PyStr(s_MBO)
    /\ Len(RulesOf(rb_result).items) = 2
    /\ PeriodStart # PyStr(s_2023_01_01)

(***************************************************************************)
(* Claims on the fenced reply, checked under SpecExtract.                  *)
(***************************************************************************)
\* C20: when the reply is a JSON object between two fences, the opening
\* one with or without a language tag, the adapter returns the object that
\* it returns for the JSON text alone.
C20_FenceStripped ==
    (Extracted /\ client \in {Replying(Body(json_dumps(GoodRecord))), FencedRecord, BareFencedRecord}) =>
        ex_result = Ret(GoodRecord)

(***************************************************************************)
(* Claims on the rows a reconciliation writes, checked under Spec.         *)
(***************************************************************************)
\* Connection c commits in this step.
CommitStep(c) == conn[c].pc = "commit" /\ conn'[c].pc = "done" /\ ops'[conn[c].op] = "ok"

\* The rows that table q2 has after the rows of q.
NewRows(q, q2) == SubSeq(q2, Len(q) + 1, Len(q2))

\* The elements of the list that the extraction result d has under key.
ElementsOf(d, key) == Iterate(dict_get(d, key, PyList(<<>>))).items

\* The rows of reconciliation o in table q.
RowsOf(q, o) == SelectSeq(q, LAMBDA r : r.op = o)

\* C17: a reconciliation that succeeds on an extraction result with N
\* products and M rules adds one scheme row, N scheme_products rows and M
\* scheme_rules rows that name this scheme row, and at most N catalogue
\* rows, and changes no other row; its scheme row is written before each
\* of its product and rule writes.
C17_WriteSet ==
    /\ [](\A c \in Conns :
             conn[c].pc \in StorePcs =>
                 /\ conn[c].work.schemes # <<>>
                 /\ conn[c].work.schemes[Len(conn[c].work.schemes)].op = conn[c].op
                 /\ conn[c].work.schemes[Len(conn[c].work.schemes)].scheme_id = conn[c].scheme_id)
    /\ [][\A c \in Conns :
             CommitStep(c) =>
                 /\ Len(db'.schemes) = Len(db.schemes) + 1
                 /\ SubSeq(db'.schemes, 1, Len(db.schemes)) = db.schemes
                 /\ db'.schemes[Len(db'.schemes)].scheme_id = conn[c].scheme_id
                 /\ \A i \in 1..Len(db.schemes) : db.schemes[i].scheme_id # conn[c].scheme_id
                 /\ SubSeq(db'.scheme_products, 1, Len(db.scheme_products)) = db.scheme_products
                 /\ Len(NewRows(db.scheme_products, db'.scheme_products))
                        = Len(ElementsOf(conn[c].data, k_products))
                 /\ \A i \in (Len(db.scheme_products) + 1)..Len(db'.scheme_products) :
                        db'.scheme_products[i].scheme_id = conn[c].scheme_id
                 /\ SubSeq(db'.scheme_rules, 1, Len(db.scheme_rules)) = db.scheme_rules
                 /\ Len(NewRows(db.scheme_rules, db'.scheme_rules))
                        = Len(ElementsOf(conn[c].data, k_scheme_rules))
                 /\ \A i \in (Len(db.scheme_rules) + 1)..Len(db'.scheme_rules) :
                        db'.scheme_rules[i].scheme_id = conn[c].scheme_id
                 /\ SubSeq(db'.products, 1, Len(db.products)) = db.products
                 /\ Len(NewRows(db.products, db'.products))
                        <= Len(ElementsOf(conn[c].data, k_products)) ]_vars

\* A reconciliation of two products with one pair committed: two
\* scheme_products rows, one catalogue row, one scheme row; and one with
\* two rules committed its two scheme_rules rows.
C17_Witness ==
    /\ \E o \in 1..Len(ops) :
          /\ ops[o] = "ok"
          /\ Len(RowsOf(db.schemes, o)) = 1
          /\ Len(RowsOf(db.scheme_products, o)) = 2
          /\ Len(RowsOf(db.products, o)) = 1
    /\ \E o \in 1..Len(ops) : ops[o] = "ok" /\ Len(RowsOf(db.scheme_rules, o)) = 2

\* The row of product number i of the reconciliation connection c commits.
CommittedAssoc(c, i) == db'.scheme_products[Len(db.scheme_products) + i]

\* The scheme row and the association rows that connection c commits have
\* their required columns set.
CompleteFields(c) ==
    LET s == db'.schemes[Len(db'.schemes)]
        products == ElementsOf(conn[c].data, k_products)
    IN  /\ PyNone \notin { s.scheme_name, s.scheme_type, s.scheme_period_start,
                           s.scheme_period_end, s.applicable_region, s.dealer_type_eligibility }
        /\ \A i \in 1..Len(products) :
              /\ PyNone \notin { CommittedAssoc(c, i).payout_type, CommittedAssoc(c, i).payout_amount,
                                 CommittedAssoc(c, i).payout_unit, CommittedAssoc(c, i).total_payout }
              /\ dict_get(products[i], k_total_payout, PyNone) = PyNone =>
                     CommittedAssoc(c, i).total_payout = CommittedAssoc(c, i).payout_amount

\* C18: after a successful reconciliation by either reconciler the scheme
\* row has a name, type, period start, period end, region and eligibility
\* that are not null, and every association row has a payout_type,
\* payout_amount, payout_unit and total_payout that are not null, the
\* total_payout being the payout_amount when the extraction gave none.
C18_CompleteFields ==
    [][\A c \in Conns : CommitStep(c) => CompleteFields(c)]_vars

\* The extraction result d has a product with the pair ("A", "X").
NamesPairAX(d) ==
    \E i \in 1..Len(ElementsOf(d, k_products)) :
        /\ dict_get(ElementsOf(d, k_products)[i], k_product_code, PyNone) = PyStr(<<"X">>)
        /\ dict_get(ElementsOf(d, k_products)[i], k_product_name, PyNone)
              \in {PyStr(<<"A">>), PyList(<<PyStr(<<"A">>)>>)}

\* C19: reconciliations that run at the same time on separate connections,
\* of documents that name the same pair not yet catalogued, each commit
\* completely or fail completely, and every committed scheme_products row
\* names a committed scheme row and a committed catalogue row that carries
\* its (name, code).
C19_RaceTolerated ==
    /\ \A o \in 1..Len(ops) :
          /\ ops[o] = "ok" => Len(RowsOf(db.schemes, o)) = 1
          /\ ops[o] # "ok" => o \notin OpsIn(db)
    /\ \A i \in 1..Len(db.scheme_products) :
          /\ ops[db.scheme_products[i].op] = "ok"
          /\ \E j \in 1..Len(db.schemes) :
                /\ db.schemes[j].scheme_id = db.scheme_products[i].scheme_id
                /\ db.schemes[j].op = db.scheme_products[i].op
          /\ \E j \in 1..Len(db.products) :
                /\ db.products[j].product_id = db.scheme_products[i].product_id
                /\ db.products[j].op \in {0, db.scheme_products[i].op}
                      \cup {o \in 1..Len(ops) : ops[o] = "ok"}
                /\ db.scheme_products[i].pair
                      = <<db.products[j].product_name, db.products[j].product_code>>

\* Two reconciliations of different documents that name the pair
\* ("A", "X") ran on the two connections, the second begun while the first
\* held the write lock; the first committed the pair and the second failed.
C19_Witness ==
    /\ conn[1].pc = "done" /\ conn[2].pc = "done"
    /\ conn[1].op = 1 /\ conn[2].op = 2
    /\ conn[1].pdf # conn[2].pdf
    /\ NamesPairAX(conn[1].data) /\ NamesPairAX(conn[2].data)
    /\ ops = <<"ok", "failed">>
    /\ \E i \in 1..Len(db.scheme_products) :
          /\ db.scheme_products[i].pair = <<PyStr(<<"A">>), PyStr(<<"X">>)>>
          /\ db.products[db.scheme_products[i].product_id].op = 1

(***************************************************************************)
(* Claims on the products of rule_based_extraction, checked under          *)
(* SpecRuleBased.                                                          *)
(***************************************************************************)
\* C27: every product that rule_based_extraction returns has a total_payout
\* equal to its payout_amount, whether the amount is the currency amount
\* at the product's position or a draw from 500..5000.
C27_TotalIsAmount ==
    RuleBased =>
        \A i \in 1..Len(Products) :
            dict_get(Products[i], k_total_payout, PyNone)
                = dict_get(Products[i], k_payout_amount, PyNone)

(***************************************************************************)
(* Claims on the values and the catalogue rows the reconcilers write,      *)
(* checked under Spec.                                                     *)
(***************************************************************************)
\* v is a finite number that is not negative.
NonNegativeFinite(v) == v.t = "float" /\ v.k = "fin" /\ (~v.neg \/ v.m = 0)

\* C25: every payout_amount that a reconciliation writes to scheme_products
\* is a finite number that is not negative, whatever the extraction result
\* held (a negative number, a numeric string, a list, a mapping, nothing).
C25_PayoutNonNegative ==
    \A c \in Conns :
        \A i \in 1..Len(conn[c].work.scheme_products) :
            NonNegativeFinite(conn[c].work.scheme_products[i].payout_amount)

\* Connection c commits a reconciliation of a document that an earlier
\* committed reconciliation was given.
CommitsAgain(c) ==
    /\ CommitStep(c)
    /\ \E j \in 1..Len(db.schemes) : db.schemes[j].scheme_document_name = PyStr(conn[c].pdf)

\* Every product of the extraction result d has a name and a code.
AllNamed(d) ==
    \A i \in 1..Len(ElementsOf(d, k_products)) :
        /\ dict_get(ElementsOf(d, k_products)[i], k_product_name, PyNone) # PyNone
        /\ dict_get(ElementsOf(d, k_products)[i], k_product_code, PyNone) # PyNone

\* C24 as stated: a second reconciliation of an extraction result creates
\* no catalogue row, also when products of the result lack a name or a
\* code.
C24_Idempotent_Anonymous ==
    [][\A c \in Conns : CommitsAgain(c) => db'.products = db.products]_vars

\* C24: a second reconciliation of an extraction result whose products all
\* have a name and a code creates no catalogue row: the catalogue after it
\* is the catalogue after the first.
C24_Idempotent ==
    [][\A c \in Conns :
          (CommitsAgain(c) /\ AllNamed(conn[c].data)) => db'.products = db.products]_vars

\* Two reconciliations of one document with two products of one new pair
\* committed: the first created the catalogue row, the second none.
C24_Witness ==
    /\ ops = <<"ok", "ok">>
    /\ db.schemes[1].scheme_document_name = db.schemes[2].scheme_document_name
    /\ Len(RowsOf(db.products, 1)) = 1
    /\ Len(RowsOf(db.products, 2)) = 0
    /\ Len(RowsOf(db.scheme_products, 2)) = 2

(***************************************************************************)
(* The text source: extract_text_from_pdf.  A document is what fitz and    *)
(* Textract do with it: whether it opens, and for every page whether it    *)
(* loads, its direct text, whether its image is rendered to the temporary  *)
(* file, what detect_document_text answers and whether the temporary file  *)
(* can be removed.                                                         *)
(***************************************************************************)
\* len(text.strip()) < 100: shorter direct texts are sent to Textract
OcrThreshold == 100

MaxPages == 2

LongText == <<" ">> \o [i \in 1..OcrThreshold |-> "x"]
ShortText == <<" ">> \o [i \in 1..(OcrThreshold - 1) |-> "x"] \o <<"\n">>

s_LINE == <<"L", "I", "N", "E">>
s_WORD == <<"W", "O", "R", "D">>

Block(has_type, type, has_text, txt) ==
    [has_type |-> has_type, BlockType |-> type, has_text |-> has_text, Text |-> txt]

\* detect_document_text raises
resp_raise == [raises |-> TRUE, has_blocks |-> FALSE, Blocks |-> <<>>]
\* two lines, a word and a line without Text
resp_lines ==
    [ raises |-> FALSE, has_blocks |-> TRUE,
      Blocks |-> << Block(TRUE, s_LINE, TRUE, <<"L", "1">>), Block(TRUE, s_WORD, TRUE, <<"w">>),
                    Block(TRUE, s_LINE, FALSE, <<>>), Block(TRUE, s_LINE, TRUE, <<"L", "2">>) >> ]
\* a block without BlockType after a line
resp_untyped ==
    [ raises |-> FALSE, has_blocks |-> TRUE,
      Blocks |-> << Block(TRUE, s_LINE, TRUE, <<"L", "1">>), Block(FALSE, <<>>, TRUE, <<"L", "2">>) >> ]
\* an answer without Blocks
resp_no_blocks == [raises |-> FALSE, has_blocks |-> FALSE, Blocks |-> <<>>]

\* 271-283: the text after the Textract call on a page whose direct text
\* is direct.  The lines are joined when every block could be read; an
\* exception of the call or of reading a block leaves the direct text.
OcrText(resp, direct) ==
    IF resp.raises \/ \E i \in 1..Len(resp.Blocks) : ~resp.Blocks[i].has_type
    THEN direct
    ELSE Join([i \in 1..Len(SelectSeq(resp.Blocks, LAMBDA b : b.BlockType = s_LINE /\ b.has_text))
                 |-> SelectSeq(resp.Blocks, LAMBDA b : b.BlockType = s_LINE /\ b.has_text)[i].Text],
              <<"\n">>)

PdfPage(load, txt, render, ocr, remove) ==
    [load |-> load, text |-> txt, render |-> render, ocr |-> ocr, remove |-> remove]

pg_long == PdfPage(TRUE, LongText, TRUE, resp_lines, TRUE)
pg_short == PdfPage(TRUE, ShortText, TRUE, resp_lines, TRUE)
pg_unloadable == PdfPage(FALSE, <<>>, TRUE, resp_lines, TRUE)
pg_unrenderable == PdfPage(TRUE, ShortText, FALSE, resp_lines, TRUE)
pg_ocr_down == PdfPage(TRUE, ShortText, TRUE, resp_raise, TRUE)
pg_ocr_untyped == PdfPage(TRUE, ShortText, TRUE, resp_untyped, TRUE)
pg_ocr_no_blocks == PdfPage(TRUE, <<>>, TRUE, resp_no_blocks, TRUE)
pg_image_kept == PdfPage(TRUE, ShortText, TRUE, resp_lines, FALSE)

PdfPages ==
    { pg_long, pg_short, pg_unloadable, pg_unrenderable, pg_ocr_down, pg_ocr_untyped,
      pg_ocr_no_blocks, pg_image_kept }

\* A text source: the document and the Textract client of the call.
PdfDoc(opens, pages, textract_client) ==
    [opens |-> opens, pages |-> pages, textract_client |-> textract_client]

PdfDocs ==
    { PdfDoc(TRUE, q, t) : q \in SeqsUpTo(PdfPages, MaxPages), t \in BOOLEAN }
    \cup { PdfDoc(FALSE, <<>>, t) : t \in BOOLEAN }

\* 260-261: the page is sent to Textract
SentToOcr(d, n) == Len(Strip(d.pages[n].text)) < OcrThreshold /\ d.textract_client

\* 255-301: one turn of the page loop for page number n (page_num + 1).
\* An exception of load_page, get_text, get_pixmap, save or open skips the
\* page (290-295); the finally clause removes the temporary image, and an
\* exception of os.remove leaves the loop (298-300, 307).
PageTurn(d, n) ==
    LET p == d.pages[n]
    IN  IF ~p.load THEN [kept |-> FALSE, raised |-> FALSE, text |-> <<>>]
        ELSE IF ~SentToOcr(d, n) THEN [kept |-> TRUE, raised |-> FALSE, text |-> p.text]
        ELSE IF ~p.render THEN [kept |-> FALSE, raised |-> FALSE, text |-> <<>>]
        ELSE [kept |-> TRUE, raised |-> ~p.remove, text |-> OcrText(p.ocr, p.text)]

\* 250-305: the loop from page n on, pages_text being acc so far; the
\* outer handler returns [] (307-312).
RECURSIVE PageLoop(_, _, _)
PageLoop(d, n, acc) ==
    IF n > Len(d.pages) THEN acc
    ELSE IF PageTurn(d, n).raised THEN <<>>
    ELSE PageLoop(d, n + 1,
                  IF PageTurn(d, n).kept
                  THEN Append(acc, <<n, PageTurn(d, n).text, PageTurn(d, n).text>>)
                  ELSE acc)

\* extract_text_from_pdf(file_path, textract_client)
extract_text_from_pdf(d) == IF ~d.opens THEN <<>> ELSE PageLoop(d, 1, <<>>)

(***************************************************************************)
(* SpecIngest: process_multiple_pdfs over a directory listing, with        *)
(* process_pdf up to its return for every PDF file.  The outcome of the    *)
(* extractor and of the reconciliation are the ones SpecExtract and Spec   *)
(* produce.                                                                *)
(***************************************************************************)
MaxFiles == 2

f_a_pdf == <<"a", ".", "p", "d", "f">>
f_B_PDF == <<"B", ".", "P", "D", "F">>
f_notes == <<"n", ".", "t", "x", "t">>
s_dot_pdf == <<".", "p", "d", "f">>

FileNames == {f_a_pdf, f_B_PDF, f_notes}

\* os.listdir: names in any order, none twice
Listings ==
    {q \in SeqsUpTo(FileNames, MaxFiles) : \A i, j \in 1..Len(q) : q[i] = q[j] => i = j}

\* s.endswith(suffix)
EndsWith(s, suffix) ==
    Len(s) >= Len(suffix) /\ SubSeq(s, Len(s) - Len(suffix) + 1, Len(s)) = suffix

\* 1054: [f for f in os.listdir(pdf_dir) if f.lower().endswith('.pdf')]
pdf_files(listing) == SelectSeq(listing, LAMBDA f : EndsWith(Lower(f), s_dot_pdf))

\* extract_structured_data_from_text returns a scheme record, another
\* value that is true (a list), or a value that is false (None, {}).
StructuredKinds == {"record", "other", "falsy"}

NoDoc == PdfDoc(FALSE, <<>>, FALSE)

\* A pages_text that is never taken for empty.
NoPages_never(pages_text) == FALSE

\* 865: not pages_text
NoPages(pages_text) == pages_text = <<>>

\* The loop turns to the next file: the locals of process_pdf are gone.
NextFile(b) ==
    [b EXCEPT !.pc = "text", !.i = @ + 1, !.doc = NoDoc, !.pages_text = <<>>,
              !.structured = "none", !.extractor_calls = 0, !.connections = 0]

\* The loop of 1067-1072 stopping at the first document that failed.
AfterReturn_stop(b, r) ==
    IF r /\ b.i < Len(b.files)
    THEN NextFile([b EXCEPT !.returns = Append(@, Ret(PyBool(r)))])
    ELSE [b EXCEPT !.returns = Append(@, Ret(PyBool(r))), !.pc = "finished"]

\* process_pdf returned r: the loop of 1067-1072 takes the next file, or
\* ends after the last.
AfterReturn(b, r) ==
    IF b.i < Len(b.files)
    THEN NextFile([b EXCEPT !.returns = Append(@, Ret(PyBool(r)))])
    ELSE [b EXCEPT !.returns = Append(@, Ret(PyBool(r))), !.pc = "finished"]

InitIngest ==
    /\ \E listing \in Listings, exists \in BOOLEAN :
          /\ exists \/ listing = <<>>
          /\ pg = [ pc |-> "list", exists |-> exists, listing |-> listing, files |-> <<>>, i |-> 0,
                    doc |-> NoDoc, pages_text |-> <<>>, structured |-> "none",
                    called |-> <<>>, returns |-> <<>>,
                    extractor_calls |-> 0, connections |-> 0 ]
    /\ IdleNormalize
    /\ IdleExtract
    /\ IdleStore
    /\ IdleApp

\* 1046-1064: a missing directory is created and nothing is processed; so
\* is a directory without PDF files; otherwise the tables are set up and
\* the loop starts.
list_directory ==
    /\ pg.pc = "list"
    /\ pg' = IF ~pg.exists \/ pdf_files(pg.listing) = <<>>
             THEN [pg EXCEPT !.pc = "finished"]
             ELSE [pg EXCEPT !.pc = "text", !.files = pdf_files(pg.listing), !.i = 1]
    /\ UNCHANGED <<nf_vars, ex_vars, db_vars, app>>

\* 846-863: process_pdf is called with the file and reads its text; a
\* secrets file that cannot be read leaves it without Textract client.
read_text(d) ==
    /\ pg.pc = "text"
    /\ pg' = [pg EXCEPT !.pc = "after_text", !.doc = d,
                        !.pages_text = extract_text_from_pdf(d),
                        !.called = Append(@, pg.files[pg.i]),
                        !.structured = "none",
                        !.extractor_calls = 0, !.connections = 0]
    /\ UNCHANGED <<nf_vars, ex_vars, db_vars, app>>

\* 865-867: no page, return False.
no_text ==
    /\ pg.pc = "after_text"
    /\ NoPages(pg.pages_text)
    /\ pg' = AfterReturn(pg, FALSE)
    /\ UNCHANGED <<nf_vars, ex_vars, db_vars, app>>

\* 870-881: the joined text is written to raw_texts; an exception of
\* makedirs, open or write is caught at 1039 and gives False.
save_text(saved) ==
    /\ pg.pc = "after_text"
    /\ ~NoPages(pg.pages_text)
    /\ pg' = IF saved THEN [pg EXCEPT !.pc = "extract"] ELSE AfterReturn(pg, FALSE)
    /\ UNCHANGED <<nf_vars, ex_vars, db_vars, app>>

\* 884-894: the extractor is called; a false result gives False.
extract_structured(kind) ==
    /\ pg.pc = "extract"
    /\ pg' = IF kind = "falsy"
             THEN AfterReturn([pg EXCEPT !.extractor_calls = @ + 1, !.structured = kind], FALSE)
             ELSE [pg EXCEPT !.extractor_calls = @ + 1, !.structured = kind, !.pc = "store"]
    /\ UNCHANGED <<nf_vars, ex_vars, db_vars, app>>

\* 897-1037: the reconciliation on a new connection: True after commit,
\* False after rollback; a result that is no mapping has no get and is
\* rolled back.
reconcile(committed) ==
    /\ pg.pc = "store"
    /\ pg' = AfterReturn([pg EXCEPT !.connections = @ + 1],
                         committed /\ pg.structured = "record")
    /\ UNCHANGED <<nf_vars, ex_vars, db_vars, app>>

NextIngest ==
    \/ list_directory
    \/ \E d \in PdfDocs : read_text(d)
    \/ no_text
    \/ \E saved \in BOOLEAN : save_text(saved)
    \/ \E kind \in StructuredKinds : extract_structured(kind)
    \/ \E committed \in BOOLEAN : reconcile(committed)

SpecIngest == InitIngest /\ [][NextIngest]_vars

\* SpecBatch: the batch over documents of four kinds: one that cannot be
\* read, one with a page of text, one with a page that does not load before
\* a page read by Textract, and one whose temporary image stays.  Every
\* call made to a collaborator returns or raises, so the loop takes its
\* next step.
BatchDocs ==
    { NoDoc, PdfDoc(TRUE, <<pg_long>>, FALSE), PdfDoc(TRUE, <<pg_unloadable, pg_short>>, TRUE),
      PdfDoc(TRUE, <<pg_long, pg_image_kept>>, TRUE) }

NextBatch ==
    \/ list_directory
    \/ \E d \in BatchDocs : read_text(d)
    \/ no_text
    \/ \E saved \in BOOLEAN : save_text(saved)
    \/ \E kind \in StructuredKinds : extract_structured(kind)
    \/ \E committed \in BOOLEAN : reconcile(committed)

SpecBatch == InitIngest /\ [][NextBatch]_vars /\ WF_vars(NextBatch)

(***************************************************************************)
(* Claims on the text source and the batch ingestion, checked under        *)
(* SpecIngest and SpecBatch.                                               *)
(***************************************************************************)
\* extract_text_from_pdf has returned pg.pages_text for pg.doc.
TextRead == pg.pc \in {"after_text", "extract", "store", "finished"} /\ Len(pg.called) > 0

\* Page n of document d fails: loading it or reading its text raises, or
\* it is sent to Textract and rendering its image or removing the
\* temporary image raises.
PageFails(d, n) ==
    \/ ~d.pages[n].load
    \/ SentToOcr(d, n) /\ (~d.pages[n].render \/ ~d.pages[n].remove)

\* The page numbers of pages_text, in order.
PageNumbers(pages_text) == [i \in 1..Len(pages_text) |-> pages_text[i][1]]

\* The page numbers of the pages of d that do not fail, in order.
RECURSIVE SoundPages(_, _)
SoundPages(d, n) ==
    IF n > Len(d.pages) THEN <<>>
    ELSE (IF PageFails(d, n) THEN <<>> ELSE <<n>>) \o SoundPages(d, n + 1)

\* C21: extract_text_from_pdf returns the pages in strictly increasing
\* order of their 1-based page number; a page that fails is left out and
\* every other page is returned, the later ones too; a page whose Textract
\* call fails is returned with its direct text.
C21_PageFailureSkipsPage ==
    (TextRead /\ pg.doc.opens) =>
        /\ \A i, j \in 1..Len(pg.pages_text) : i < j => pg.pages_text[i][1] < pg.pages_text[j][1]
        /\ PageNumbers(pg.pages_text) = SoundPages(pg.doc, 1)
        /\ \A n \in 1..Len(pg.doc.pages) :
              (~PageFails(pg.doc, n) /\ SentToOcr(pg.doc, n) /\ pg.doc.pages[n].ocr.raises) =>
                  \E i \in 1..Len(pg.pages_text) :
                      pg.pages_text[i] = <<n, pg.doc.pages[n].text, pg.doc.pages[n].text>>

\* Document d cannot be read, or none of its pages is kept.
YieldsNoPages(d) == ~d.opens \/ \A n \in 1..Len(d.pages) : ~PageTurn(d, n).kept

\* process_pdf has returned for the file called last.
Returned == pg.pc = "finished" /\ Len(pg.returns) = Len(pg.called)

\* C22: when the document cannot be read or every page of it failed,
\* extract_text_from_pdf returns an empty sequence and process_pdf returns
\* False without a call of the extractor and without a store connection,
\* transaction or row.
C22_NoPagesNoWrite ==
    (TextRead /\ YieldsNoPages(pg.doc)) =>
        /\ pg.pages_text = <<>>
        /\ pg.pc \notin {"extract", "store"}
        /\ pg.extractor_calls = 0
        /\ pg.connections = 0
        /\ Returned => pg.returns[Len(pg.returns)] = Ret(PyBool(FALSE))

\* process_pdf returned for a document of two pages, one that does not load
\* and one whose image cannot be rendered.
C22_Witness ==
    /\ TextRead /\ Returned
    /\ pg.doc.opens /\ pg.doc.textract_client
    /\ pg.doc.pages = <<pg_unloadable, pg_unrenderable>>
    /\ pg.returns[Len(pg.returns)] = Ret(PyBool(FALSE))

\* The calls of process_pdf so far are the PDF files of the directory, in
\* listing order, each once, and each call that ended returned True or
\* False; when the batch has finished every PDF file was given to
\* process_pdf and every call has returned.
BatchInOrder ==
    pg.pc # "idle" =>
        /\ Len(pg.called) <= Len(pdf_files(pg.listing))
        /\ pg.called = SubSeq(pdf_files(pg.listing), 1, Len(pg.called))
        /\ Len(pg.returns) \in {Len(pg.called), Len(pg.called) - 1}
        /\ \A k \in 1..Len(pg.returns) : pg.returns[k] \in {Ret(PyBool(TRUE)), Ret(PyBool(FALSE))}
        /\ pg.pc = "finished" => (pg.called = pdf_files(pg.listing) /\ Len(pg.returns) = Len(pg.called))

call_extract_structured_data(args) ==
    IF Len(args) < 2 THEN Raise("TypeError")
    ELSE extract_structured_data_from_text(args[1], args[2], NoClient,
                                           [stream |-> "low_high", order |-> 0])

\* The uploaded files: render_upload passes no Textract client.
UploadedDocs == {d \in PdfDocs : ~d.textract_client}

InitUpload ==
    /\ app \in { [pc |-> "uploaded", doc |-> d, extracted_text |-> <<>>, structured_data |-> Pending] :
                   d \in UploadedDocs }
    /\ IdleNormalize
    /\ IdleExtract
    /\ IdleStore
    /\ IdleIngest

\* 779-782: extracted_text = extract_text_from_pdf(uploaded_pdf)
upload_text ==
    /\ app.pc = "uploaded"
    /\ app' = [app EXCEPT !.pc = "text", !.extracted_text = extract_text_from_pdf(app.doc)]
    /\ UNCHANGED <<nf_vars, ex_vars, db_vars, pg>>

\* 793-795: structured_data = extract_structured_data_from_text(
\* extracted_text); an exception ends the run of the page, otherwise the
\* form is rendered (797-846).
upload_structure ==
    /\ app.pc = "text"
    /\ \E r \in {call_extract_structured_data(<<app.extracted_text>>)} :
          app' = [app EXCEPT !.structured_data = r,
                             !.pc = IF r.exc = "none" THEN "form" ELSE "exception"]
    /\ UNCHANGED <<nf_vars, ex_vars, db_vars, pg>>

NextUpload == upload_text \/ upload_structure

SpecUpload == InitUpload /\ [][NextUpload]_vars

\* C26: for every uploaded PDF the extraction step of render_upload ends
\* with a scheme record and the page reaches the form in which the scheme
\* is edited and saved; the extraction call raises nothing to the page.
C26_UploadReachesForm ==
    app.pc \in {"form", "exception"} =>
        /\ app.pc = "form"
        /\ app.structured_data.exc = "none"
        /\ app.structured_data.val.t = "dict"

(***************************************************************************)
(* SpecApp: the review application, app.py.  Every browser session runs    *)
(* the page script in a thread of one process; the reads of the store are  *)
(* memoized by functools.lru_cache, one cache per function for the whole   *)
(* process.  render_upload never reaches its Save handler (the extraction  *)
(* call raises), so the schemes to review are the two sample schemes and   *)
(* the ones the batch process writes with process_pdf.                     *)
(***************************************************************************)
MaxSchemes == 1
MaxSales == 1
Sessions == {1, 2}


\* The store's comparison of two TEXT values (BINARY collation), for the
\* characters of a date: "-" sorts before the digits.
Code(c) == IF c = "-" THEN 45 ELSE 48 + DigitVal(c)

RECURSIVE TextLess(_, _)
TextLess(a, b) ==
    IF b = <<>> THEN FALSE
    ELSE IF a = <<>> THEN TRUE
    ELSE IF a[1] = b[1] THEN TextLess(Tail(a), Tail(b))
    ELSE Code(a[1]) < Code(b[1])

\* add_sample_data, 714-725: the two sample schemes (their names
\* shortened), written as Approved; deal_status takes the column's default
\* (42).
SampleScheme(id, name, type) ==
    [ scheme_id |-> id, scheme_name |-> PyStr(name), scheme_type |-> PyStr(type),
      scheme_period_start |-> PyStr(s_2023_08_01), scheme_period_end |-> PyStr(s_2023_08_31),
      applicable_region |-> PyStr(s_All_India), dealer_type_eligibility |-> PyStr(s_All_Dealers),
      scheme_document_name |-> PyNone,
      deal_status |-> PyStr(s_Active), approval_status |-> PyStr(s_Approved), op |-> 0 ]

SampleSchemes ==
    << SampleScheme(1, s_S_Series, s_Special_Support),
       SampleScheme(2, s_Bundle, s_Bundle_Offer) >>

\* The normalized fields of a scheme that process_pdf reconciles, here of a
\* document that states no period: the default period ends after the sample
\* schemes' period.
ReviewFields ==
    << Ret(PyStr(s_Upgrade_Program)), Ret(PyStr(s_Special_Support)),
       Ret(PyStr(s_2023_01_01)), Ret(PyStr(s_2023_12_31)),
       Ret(PyStr(s_All_India)), Ret(PyStr(s_All_Dealers)) >>

\* ---- the memoized reads ------------------------------------------------
\* An entry of an lru_cache: empty, or the value the first call returned.
Miss == [hit |-> FALSE]
Filled(v) == [hit |-> TRUE, val |-> v]

\* functools.lru_cache: the cached value if there is one, else the call.
Memo(entry, fresh) == IF entry.hit THEN entry ELSE Filled(fresh)

Ids(rows) == [i \in 1..Len(rows) |-> rows[i].scheme_id]
SeqSet(s) == {s[i] : i \in 1..Len(s)}
Backwards(s) == [i \in 1..Len(s) |-> s[Len(s) + 1 - i]]

\* A query that selects on deal_status alone.
IsActive_only(row) == row.deal_status = PyStr(s_Active)

\* 85-86: WHERE deal_status = 'Active' AND approval_status = 'Approved'
IsActiveApproved(row) ==
    row.deal_status = PyStr(s_Active) /\ row.approval_status = PyStr(s_Approved)

\* ORDER BY scheme_period_end DESC: rows with the same end stay in the
\* order of the table.
RECURSIVE InsertByEnd(_, _)
InsertByEnd(row, sorted) ==
    IF sorted = <<>> THEN <<row>>
    ELSE IF TextLess(Head(sorted).scheme_period_end.s, row.scheme_period_end.s)
         THEN <<row>> \o sorted
         ELSE <<Head(sorted)>> \o InsertByEnd(row, Tail(sorted))

RECURSIVE OrderByEndDesc(_)
OrderByEndDesc(rows) ==
    IF rows = <<>> THEN <<>>
    ELSE InsertByEnd(rows[Len(rows)], OrderByEndDesc(SubSeq(rows, 1, Len(rows) - 1)))

Limit(rows, n) == SubSeq(rows, 1, IF Len(rows) < n THEN Len(rows) ELSE n)

\* get_active_schemes, 76-94 (the uncached call).
get_active_schemes(schemes) ==
    Limit(OrderByEndDesc(SelectSeq(schemes, IsActiveApproved)), 2)

\* get_pending_approvals, 182-199 (the uncached call): the pending schemes,
\* latest upload first.
IsPending(row) == row.approval_status = PyStr(s_Pending)
get_pending_approvals(schemes) == Backwards(SelectSeq(schemes, IsPending))

\* get_scheme_details, 143-180 (the uncached call): the scheme's row, or
\* None when there is no such scheme.
get_scheme_details(schemes, scheme_id) ==
    IF \E i \in 1..Len(schemes) : schemes[i].scheme_id = scheme_id
    THEN The({schemes[i] : i \in {j \in 1..Len(schemes) : schemes[j].scheme_id = scheme_id}})
    ELSE PyNone

\* get_sales_data, 201-235 (the uncached call): the sales rows, here their
\* number.
get_sales_data(sales) == sales

SchemeIds == 1..(Len(SampleSchemes) + MaxSchemes)

NoClick == [scheme_id |-> 0, status |-> <<>>]
IdleSession == [pc |-> "idle", shown |-> <<>>, clicked |-> NoClick]

InitApp ==
    /\ db = [EmptyStore EXCEPT !.schemes = SampleSchemes]
    /\ conn = [c \in Conns |-> IdleConn]
    /\ ops = <<>>
    /\ app = [ pc |-> "serving",
               cache |-> [ pending |-> Miss, active |-> Miss,
                           details |-> [id \in SchemeIds |-> Miss], sales |-> Miss ],
               sales |-> 0,
               session |-> [s \in Sessions |-> IdleSession],
               approved |-> {},
               foreign |-> FALSE ]
    /\ IdleNormalize
    /\ IdleExtract
    /\ IdleIngest

\* Some call of a memoized read is cached.
AnyFilled(cache) ==
    \/ cache.pending.hit \/ cache.active.hit \/ cache.sales.hit
    \/ \E id \in SchemeIds : cache.details[id].hit

\* process_pdf in the batch process, 910-925 and 1027-1029: a scheme row is
\* inserted and committed.  approved is the set of schemes for which an
\* approve action has been committed; foreign records that the batch process
\* has written while the application held a cached read.
scheme_reconciled ==
    /\ app.pc = "serving"
    /\ Len(db.schemes) < Len(SampleSchemes) + MaxSchemes
    /\ \E id \in {Len(db.schemes) + 1} :
          db' = [db EXCEPT !.schemes = Append(@, scheme_row(ReviewFields, f_a_pdf, id, id))]
    /\ app' = [app EXCEPT !.foreign = @ \/ AnyFilled(app.cache)]
    /\ UNCHANGED <<nf_vars, ex_vars, conn, ops, pg>>

\* render_approvals, 886-935, in a run of the page without a click: the
\* pending list is read and a pair of buttons is rendered for every scheme.
render_approvals(s) ==
    /\ app.pc = "serving"
    /\ app.session[s].pc = "idle"
    /\ \E e \in {Memo(app.cache.pending, get_pending_approvals(db.schemes))} :
          app' = [app EXCEPT !.cache.pending = e,
                             !.session[s].shown = Ids(e.val)]
    /\ UNCHANGED <<nf_vars, ex_vars, db_vars, pg>>

\* The reviewer presses Approve or Reject of a scheme that is on the page.
click(s, scheme_id, status) ==
    /\ app.pc = "serving"
    /\ app.session[s].pc = "idle"
    /\ scheme_id \in SeqSet(app.session[s].shown)
    /\ app' = [app EXCEPT !.session[s].pc = "rerun",
                          !.session[s].clicked = [scheme_id |-> scheme_id, status |-> status]]
    /\ UNCHANGED <<nf_vars, ex_vars, db_vars, pg>>

\* update_scheme_status, 331-349: UPDATE schemes SET approval_status = ?
\* WHERE scheme_id = ?
SetStatus(schemes, scheme_id, status) ==
    [i \in 1..Len(schemes) |->
        IF schemes[i].scheme_id = scheme_id
        THEN [schemes[i] EXCEPT !.approval_status = PyStr(status)]
        ELSE schemes[i]]

\* The run of render_approvals after a click, 890-933: the pending list is
\* read again; the pressed button fires if its scheme is still in the list,
\* and update_scheme_status then commits the new status (True) or fails
\* (False, the page goes on).
rerun_approvals(s, ok) ==
    /\ app.pc = "serving"
    /\ app.session[s].pc = "rerun"
    /\ \E e \in {Memo(app.cache.pending, get_pending_approvals(db.schemes))} :
       \E c \in {app.session[s].clicked} :
          IF c.scheme_id \in SeqSet(Ids(e.val)) /\ ok
          THEN /\ db' = [db EXCEPT !.schemes = SetStatus(@, c.scheme_id, c.status)]
               /\ app' = [app EXCEPT !.cache.pending = e,
                                     !.session[s].pc = "clear",
                                     !.approved = IF c.status = s_Approved
                                                  THEN @ \cup {c.scheme_id} ELSE @]
          ELSE /\ db' = db
               /\ app' = [app EXCEPT !.cache.pending = e,
                                     !.session[s].pc = "idle",
                                     !.session[s].shown = Ids(e.val),
                                     !.session[s].clicked = NoClick]
    /\ UNCHANGED <<nf_vars, ex_vars, conn, ops, pg>>

\* 920-924 and 929-933 after the update: get_active_schemes.cache_clear(),
\* get_pending_approvals.cache_clear(), st.rerun().
clear_and_rerun(s) ==
    /\ app.pc = "serving"
    /\ app.session[s].pc = "clear"
    /\ app' = [app EXCEPT !.cache.active = Miss,
                          !.cache.pending = Miss,
                          !.session[s] = IdleSession]
    /\ UNCHANGED <<nf_vars, ex_vars, db_vars, pg>>

\* A page calls get_active_schemes() (468, 627, 958).
read_active_schemes ==
    /\ app.pc = "serving"
    /\ \E e \in {Memo(app.cache.active, get_active_schemes(db.schemes))} :
          app' = [app EXCEPT !.cache.active = e]
    /\ UNCHANGED <<nf_vars, ex_vars, db_vars, pg>>

\* render_schemes, 655-681, and render_scheme_details, 689-692: View
\* Details of a scheme that get_active_schemes() lists makes it the
\* session's current scheme, and the details page calls
\* get_scheme_details(scheme_id) for it.  No other call site passes an id.
view_scheme_details(scheme_id) ==
    /\ app.pc = "serving"
    /\ \E e \in {Memo(app.cache.active, get_active_schemes(db.schemes))} :
       \E d \in {Memo(app.cache.details[scheme_id], get_scheme_details(db.schemes, scheme_id))} :
          /\ scheme_id \in SeqSet(Ids(e.val))
          /\ app' = [app EXCEPT !.cache.active = e, !.cache.details[scheme_id] = d]
    /\ UNCHANGED <<nf_vars, ex_vars, db_vars, pg>>

\* A page calls get_sales_data() (470).
read_sales_data ==
    /\ app.pc = "serving"
    /\ \E e \in {Memo(app.cache.sales, get_sales_data(app.sales))} :
          app' = [app EXCEPT !.cache.sales = e]
    /\ UNCHANGED <<nf_vars, ex_vars, db_vars, pg>>

\* render_simulate_sales, 1038-1054: add_simulated_sale commits a sale and
\* get_sales_data.cache_clear() follows.
simulate_sale ==
    /\ app.pc = "serving"
    /\ app.sales < MaxSales
    /\ app' = [app EXCEPT !.sales = @ + 1, !.cache.sales = Miss]
    /\ UNCHANGED <<nf_vars, ex_vars, db_vars, pg>>

NextApp ==
    \/ scheme_reconciled
    \/ \E s \in Sessions : render_approvals(s)
    \/ \E s \in Sessions, id \in SchemeIds, status \in {s_Approved, s_Rejected} : click(s, id, status)
    \/ \E s \in Sessions, ok \in BOOLEAN : rerun_approvals(s, ok)
    \/ \E s \in Sessions : clear_and_rerun(s)
    \/ read_active_schemes
    \/ \E id \in SchemeIds : view_scheme_details(id)
    \/ read_sales_data
    \/ simulate_sale

SpecApp == InitApp /\ [][NextApp]_vars

\* C28: a scheme's approval_status changes only from "Pending", and only to
\* "Approved" or "Rejected"; a scheme that is Approved or Rejected keeps its
\* status through every approve and reject action of every session.
C28_StatusFinal ==
    [][\A i \in 1..Len(db.schemes) :
          db'.schemes[i].approval_status # db.schemes[i].approval_status =>
              /\ db.schemes[i].approval_status = PyStr(s_Pending)
              /\ db'.schemes[i].approval_status \in {PyStr(s_Approved), PyStr(s_Rejected)}]_vars

\* No write handler of the application is between its commit and the
\* cache_clear calls that follow it.
HandlersFinished == \A s \in Sessions : app.session[s].pc # "clear"

\* C23: once the write handlers of the application have finished, the next
\* call of every memoized read returns the store's current contents: an
\* entry that is still cached holds what the query returns now.  (Runs in
\* which the batch process wrote behind a cached read are left out.)
C23_CachedReadsFresh ==
    (app.pc = "serving" /\ HandlersFinished /\ ~app.foreign) =>
        /\ app.cache.pending.hit => app.cache.pending.val = get_pending_approvals(db.schemes)
        /\ app.cache.active.hit => app.cache.active.val = get_active_schemes(db.schemes)
        /\ \A id \in SchemeIds :
              app.cache.details[id].hit =>
                  app.cache.details[id].val = get_scheme_details(db.schemes, id)
        /\ app.cache.sales.hit => app.cache.sales.val = get_sales_data(app.sales)

\* C29: a scheme that a reconciliation creates is stored with deal_status
\* "Active" and approval_status "Pending", and no call of get_active_schemes
\* returns it before an approve action on it has been committed.
C29_PendingUntilApproved ==
    /\ [](app.pc = "serving" /\ app.cache.active.hit =>
            \A i \in 1..Len(app.cache.active.val) :
               app.cache.active.val[i].op > 0 =>
                   app.cache.active.val[i].scheme_id \in app.approved)
    /\ [][\A i \in (Len(db.schemes) + 1)..Len(db'.schemes) :
             /\ db'.schemes[i].deal_status = PyStr(s_Active)
             /\ db'.schemes[i].approval_status = PyStr(s_Pending)]_vars

\* get_active_schemes has returned a reconciled scheme after its approval.
C29_Witness ==
    /\ app.pc = "serving"
    /\ app.cache.active.hit
    /\ \E i \in 1..Len(app.cache.active.val) :
          /\ app.cache.active.val[i].op > 0
          /\ app.cache.active.val[i].scheme_id \in app.approved

====
